---------------------------- MODULE Spec2Model ----------------------------
(***************************************************************************)
(* Ranking store, score provider and re-scoring scheduler of the Hacker    *)
(* News scraper (dtaplin21/Task-Wolf-Interview).                           *)
(*                                                                         *)
(* The repository holds two ranking stores and two schedulers:             *)
(*   - the functional store (rankingHistory / rankingOrder / aiInsights,   *)
(*     bounded by MAX_RANKINGS_STORED) with the functional scheduler       *)
(*     (runRescoreOnce): specification SpecF;                              *)
(*   - the class-based RankingStore (rankings Map, insight embedded in the *)
(*     ranking object) with the class-based ReScoringScheduler:            *)
(*     specification Spec.                                                 *)
(* Both are driven by the same server paths (scrape with its detached      *)
(* initial scoring, manual rescore) and the same AIScoringService.         *)
(*                                                                         *)
(* Time is counted in units of two hours (the freshness threshold); ids    *)
(* are drawn from a counter (the code draws them from randomUUID or from   *)
(* Date.now() and Math.random()).                                          *)
(***************************************************************************)
EXTENDS Integers, Sequences, FiniteSets, TLC

----------------------------------------------------------------------------
(* Bounds of the model *)

\* snapshots created in one behaviour of the class-based store
MaxCreated == 2
\* capacity of the functional store; 20 in the source
\* (src/__tests__/articleScoreRoute.test.js:219), scaled down
MAX_RANKINGS_STORED == 2
\* snapshots created in one behaviour of the functional store: enough to evict
MaxCreatedF == MAX_RANKINGS_STORED + 1
\* requestAIScoring calls started in one behaviour
MaxCalls == 3
\* cycles of the class-based scheduler that are suspended at once
MaxCycles == 3
\* feedback entries stored in one behaviour
MaxFeedback == 1
\* feedback entries held at once by the class-based store
MaxFeedbackK == 2
\* requests to POST /api/articles/score in one behaviour
MaxRequests == 3
\* client invocations started in one behaviour of the cache-backed scoring service
MaxScored == 3
\* callOpenAI calls made in one behaviour
MaxOpenAICalls == 2
\* scoring jobs accepted in one behaviour of the heuristic scoring service
MaxRanked == 4
\* objects allocated in one behaviour of the article store and its caller
MaxHeap == 11
\* CONFIG.REQUIRED_ARTICLE_COUNT of the scraper, 100 in the source
REQUIRED_ARTICLE_COUNT == 3
\* articles one run of the scraper collects: one more than it validates
MaxCollected == REQUIRED_ARTICLE_COUNT + 1

----------------------------------------------------------------------------
(* Program constants *)

\* 2 * 60 * 60 * 1000 ms; the clock of the model counts units of two hours
rescoreThreshold == 1
\* ReScoringScheduler constructor
DefaultMaxConcurrentJobs == 2
\* 30 * 60 * 1000 ms, in minutes
DefaultIntervalMs == 30
\* the intervalMs arguments of start, in minutes
IntervalsSent == {15, 30}
\* the configurations clients pass to updateConfig; 0 stands for an absent
\* or zero field
ConfigsSent ==
    {[intervalMs |-> 0, maxConcurrentJobs |-> 1],
     [intervalMs |-> 15, maxConcurrentJobs |-> DefaultMaxConcurrentJobs],
     [intervalMs |-> -15, maxConcurrentJobs |-> -1]}
\* the clock stops advancing once an insight saved at time 0 is older than
\* the threshold
MaxTime == rescoreThreshold + 1
\* under SpecConfig two creation times are enough
MaxTimeConfig == rescoreThreshold
\* AIScoringService: this.maxRetries and this.retryDelay
maxRetries == 3
retryDelay == 1000
\* the heuristic ArticleScoringService
maxConcurrentScoring == 3
\* this.cacheExpiry: 30 minutes, one unit of the clock under SpecRanking
cacheExpiry == 1
\* under SpecRanking one cache expiry is enough
MaxTimeRanking == cacheExpiry
\* under SpecF, where no operation reads an age, it stops after one threshold
MaxTimeF == rescoreThreshold

\* the null of the source, for ids (ids start at 1) and for records
NoId == 0
NoInsight == [requestId |-> 0]
NoRanking == [id |-> 0]

\* article lists a scrape can deliver (only the length is read by the core)
ArticleLists == {<<>>, <<"a1">>}
\* below this number of articles the scraper throws; 10 in the source
CriticalArticleCount == 1
\* Date.now() when the scraper parses the timestamps
ScrapeTimes == {2}
\* new Date(timeISO).getTime() is NaN
InvalidTime == -1
\* the articles a page can show: with an ISO time, with an unparsable ISO
\* time and a relative time text ("2 hours ago"), with a relative time text
\* only, and without any time
ArticlesSeen ==
    {[timeISO |-> 0], [timeISO |-> 1], [timeISO |-> InvalidTime, timeText |-> 2],
     [timeText |-> 1], [title |-> "t"]}
\* what collectArticlesFromMultiplePages can return
CollectedLists == UNION {[1..n -> ArticlesSeen] : n \in 0..MaxCollected}
\* rateLimit.js: 60_000 ms, one unit of the clock under SpecApi
defaultWindowMs == 1
defaultMaxRequests == 60
\* process.env as the server's operator sets it before the first request:
\* a name that is not in the domain is not set
EnvsSent ==
    {[API_KEY |-> "secret"],
     [ARTICLE_SCORING_API_KEY |-> "secret", RATE_LIMIT_MAX |-> 1, RATE_LIMIT_WINDOW_MS |-> 2],
     [RATE_LIMIT_MAX |-> 2, RATE_LIMIT_WINDOW_MS |-> 1],
     [RATE_LIMIT_MAX |-> 0]}
\* the Authorization headers clients send, with the token the pattern
\* /^Bearer\s+(\S+)$/i captures from each ("": no match)
BearerToken ==
    [authorization \in {"bearer secret", "Basic secret"} |->
        IF authorization = "bearer secret" THEN "secret" ELSE ""]
\* the requests clients send to POST /api/articles/score; "" is an absent header
RequestsSent ==
    [xApiKey : {"", "secret", "wrong"}, authorization : {""} \cup DOMAIN BearerToken,
     ip : {"ip1"}, articles : ArticleLists]
\* the data a client passes to RankingStore.createRankingRecord: without and
\* with an article list
DataSent == {[url |-> "u"], [url |-> "u", articles |-> <<"a1">>]}
\* server.js FEEDBACK_VOTES, and the votes and positions a client may send
FEEDBACK_VOTES == {"promote", "demote", "correct"}
VotesSent == {"promote", "up"}
PositionsSent == 0..2
\* maxAge arguments of cleanupOldRankings, in units of two hours
MaxAges == {0, 1}

VARIABLES
    now,               \* the clock (Date.now()), in units of two hours
    created,           \* number of snapshots created so far
    calls,             \* requestAIScoring calls in flight
    nextCall,          \* number of requestAIScoring calls started so far
    openaiConfigured,  \* config.isOpenAIConfigured(): an API key is in the environment
    \* functional store
    rankingHistory, rankingOrder, feedbackEntries, aiInsights, currentRankingId,
    lastSave,          \* arguments and return value of the last saveAIInsight
    \* functional scheduler
    intervalHandle,    \* the setInterval handle startReScoringScheduler keeps, or null
    f_timers,          \* the interval timers of runRescoreOnce armed in the runtime
    \* class-based RankingStore
    rs_rankings,       \* this.rankings: the Map's values in insertion order
    rs_currentRankingId,
    rs_feedback,       \* this.feedback: the Map's entries in insertion order
    \* class-based ReScoringScheduler
    isRunning, intervalId,
    intervalMs,        \* this.intervalMs, in minutes
    maxConcurrentJobs, activeJobs,
    timers,            \* the interval timers armed in the runtime
    timerMs,           \* the period the scheduler's timer was armed with, 0 when none is
    cycles,            \* the runReScoringCycle invocations awaiting their jobs
    schedLog,          \* what the last runReScoringCycle logged on entry
    \* the scraper script
    scraperRun,        \* input and outcome of the last validateHackerNewsArticleSorting
    \* POST /api/articles/score and its middleware
    env,               \* process.env: API_KEY, ARTICLE_SCORING_API_KEY, RATE_LIMIT_*
    buckets,           \* rateLimit.js buckets: identifier -> {count, expiresAt}
    served,            \* number of requests answered so far
    scoringCalls,      \* number of articleScoringService.rankArticles calls so far
    lastResponse,      \* the last request and the status it was answered with
    \* the in-memory article store (data/articles) and its caller
    heap,              \* the objects allocated so far; an address is an index
    storedArticles,    \* address of the array the store holds
    storedMetadata,    \* address of the metadata object the store holds, or null
    held,              \* addresses the caller holds: its arguments and the results it got
    saveError,         \* what the last saveArticles call threw, "none" if it returned
    \* the cache-backed ArticleScoringService and its OpenAI client
    svcCache,          \* this.cache: cache key -> entry
    svcPending,        \* scoreArticles calls awaiting client.chat.completions.create
    svcInvocations,    \* cache key -> client invocations started and failed since
                       \* the last clearCache()
    svcStarted,        \* client invocations started so far
    svcResult,         \* what the last scoreArticles call to end returned or threw
    \* the heuristic ArticleScoringService
    scoringCache,      \* this.scoringCache: cache key -> timestamp of the entry
    activeScoringJobs, \* this.activeScoringJobs
    rankJobs,          \* rankArticles calls suspended in scoreArticles
    ranked,            \* scoring jobs accepted so far
    rankResult,        \* how the last rankArticles call to end ended
    \* AIScoringService.callOpenAI
    openaiCalls        \* the callOpenAI calls made so far, each with its position

storeF == <<rankingHistory, rankingOrder, feedbackEntries, aiInsights, currentRankingId>>
storeK == <<rs_rankings, rs_currentRankingId, rs_feedback>>
schedF == <<intervalHandle, f_timers>>
sched == <<isRunning, intervalId, intervalMs, maxConcurrentJobs, activeJobs, cycles,
          schedLog>>
\* the state outside the ranking core
api == <<env, buckets, served, scoringCalls, lastResponse>>
articleStore == <<heap, storedArticles, storedMetadata, held, saveError>>
cacheSvc == <<svcCache, svcPending, svcInvocations, svcStarted, svcResult>>
heurSvc == <<scoringCache, activeScoringJobs, rankJobs, ranked, rankResult>>
services == <<cacheSvc, heurSvc, openaiCalls>>
outerRest == <<scraperRun, api, articleStore, services>>
outer == <<outerRest, timerMs>>
vars == <<outer, now, created, calls, nextCall, openaiConfigured, storeF, lastSave,
          schedF, storeK, sched, timers>>

----------------------------------------------------------------------------
(* Helpers on Maps and arrays *)

\* Map.delete(k)
MapDelete(m, k) == [x \in DOMAIN m \ {k} |-> m[x]]
\* Map.set(k, v)
MapSet(m, k, v) == [x \in DOMAIN m \cup {k} |-> IF x = k THEN v ELSE m[x]]
\* Array.prototype.reverse
Reverse(s) == [i \in 1..Len(s) |-> s[Len(s) + 1 - i]]
\* Array.prototype.slice(0, n)
Slice(s, n) == SubSeq(s, 1, IF n < Len(s) THEN n ELSE Len(s))
EmptyMap == [x \in {} |-> 0]

----------------------------------------------------------------------------
(* Functional ranking store *)

\* PruneStep with the insight of the evicted snapshot left behind
PruneStepKeepsInsight(st) ==
    LET oldestId == Head(st[2])
    IN <<MapDelete(st[1], oldestId), Tail(st[2]), st[3]>>

\* one shift() of pruneHistoryIfNeeded's loop, on <<history, order, insights>>
PruneStep(st) ==
    LET oldestId == Head(st[2])
    IN <<MapDelete(st[1], oldestId), Tail(st[2]), MapDelete(st[3], oldestId)>>

RECURSIVE pruneHistoryNewest(_)
\* pruneHistoryIfNeeded with pop() for shift(): the newest snapshot goes
pruneHistoryNewest(st) ==
    IF Len(st[2]) > MAX_RANKINGS_STORED
    THEN LET newestId == st[2][Len(st[2])]
         IN pruneHistoryNewest(<<MapDelete(st[1], newestId),
                                 SubSeq(st[2], 1, Len(st[2]) - 1),
                                 MapDelete(st[3], newestId)>>)
    ELSE st

RECURSIVE pruneHistoryIfNeeded(_)
pruneHistoryIfNeeded(st) ==
    IF Len(st[2]) > MAX_RANKINGS_STORED
    THEN pruneHistoryIfNeeded(PruneStep(st))
    ELSE st

\* the record createRankingRecord builds
RankingRecord(id, articles) ==
    [id |-> id, articles |-> articles, generatedAt |-> now]

createRankingRecord(articles) ==
    LET id == created + 1
        st == pruneHistoryIfNeeded(<<MapSet(rankingHistory, id, RankingRecord(id, articles)),
                                     Append(rankingOrder, id),
                                     aiInsights>>)
    IN /\ created' = id
       /\ rankingHistory' = st[1]
       /\ rankingOrder' = st[2]
       /\ aiInsights' = st[3]
       /\ currentRankingId' = id

getRankingById(id) ==
    IF id \in DOMAIN rankingHistory THEN rankingHistory[id] ELSE NoRanking

getCurrentRanking ==
    IF currentRankingId # NoId THEN getRankingById(currentRankingId) ELSE NoRanking

\* rankingOrder.slice().reverse().map(id => rankingHistory.get(id)).filter(Boolean)
listRankings ==
    LET rev == Reverse(rankingOrder)
        got == [i \in 1..Len(rev) |-> getRankingById(rev[i])]
    IN SelectSeq(got, LAMBDA r : r.id # NoId)

getAIInsight(rankingId) ==
    IF rankingId \in DOMAIN aiInsights THEN aiInsights[rankingId] ELSE NoInsight

\* saveAIInsightRecord without the rankingHistory.has(rankingId) check
saveAIInsightUnchecked(rankingId, insight) ==
    [requestId |-> insight.requestId, success |-> insight.success,
     generatedAt |-> insight.generatedAt,
     rankingId |-> rankingId, recordedAt |-> now]

\* the value saveAIInsight returns: the stored record, or null
saveAIInsightRecord(rankingId, insight) ==
    IF rankingId \notin DOMAIN rankingHistory
    THEN NoInsight
    ELSE [requestId |-> insight.requestId, success |-> insight.success,
          generatedAt |-> insight.generatedAt,
          rankingId |-> rankingId, recordedAt |-> now]

\* saveAIInsight that keeps an insight already stored for the ranking
saveAIInsightFirstWins(rankingId, insight) ==
    LET record == saveAIInsightRecord(rankingId, insight)
    IN /\ aiInsights' = IF record = NoInsight \/ rankingId \in DOMAIN aiInsights
                        THEN aiInsights
                        ELSE MapSet(aiInsights, rankingId, record)
       /\ lastSave' = [rankingId |-> rankingId, insight |-> insight, returned |-> record]

saveAIInsight(rankingId, insight) ==
    LET record == saveAIInsightRecord(rankingId, insight)
    IN /\ aiInsights' = IF record = NoInsight THEN aiInsights
                        ELSE MapSet(aiInsights, rankingId, record)
       /\ lastSave' = [rankingId |-> rankingId, insight |-> insight, returned |-> record]

addFeedback(rankingId, articlePosition, vote) ==
    feedbackEntries' = Append(feedbackEntries,
        [id |-> Len(feedbackEntries) + 1, rankingId |-> rankingId,
         articlePosition |-> articlePosition, vote |-> vote, submittedAt |-> now])

----------------------------------------------------------------------------
(* AIScoringService and the clock *)

\* generateRequestId: the i-th of the request ids drawn next; every id differs
\* from all ids drawn before
generateRequestId(i) == nextCall + i

\* a requestAIScoring call in flight: who awaits it and the snapshot it was given
Call(requestId, path, cycle, ranking) ==
    [id |-> requestId, path |-> path, cycle |-> cycle,
     rankingId |-> ranking.id, articles |-> ranking.articles]

\* the result requestAIScoring resolves with; it never rejects: a snapshot
\* without articles and every error of callOpenAI give success: false
requestAIScoring(c, ok) ==
    [requestId |-> c.id, rankingId |-> c.rankingId,
     success |-> (Len(c.articles) > 0 /\ ok), generatedAt |-> now]

\* time passes, up to max
Advance(max) ==
    /\ now < max
    /\ now' = now + 1
    /\ UNCHANGED <<outer, created, calls, nextCall, openaiConfigured, storeF, lastSave,
                   schedF, storeK, sched, timers>>

Tick == Advance(MaxTime)

\* a time t as it reads one unit of the clock later, when the clock itself
\* is held at MaxTime: every age read is one more, up to "beyond the threshold"
OneBack(t) == IF t > 0 THEN t - 1 ELSE 0

\* time passes without end: up to MaxTime the clock advances, from then on
\* every stored time moves one unit back instead (the scheduler reads ages
\* only, and reads an age beyond rescoreThreshold the same whatever its
\* size). Request ids carry Date.now(): once no call is in flight, the ids
\* drawn later are counted from the start again.
Elapse ==
    /\ IF now < MaxTime
       THEN now' = now + 1 /\ UNCHANGED rs_rankings
       ELSE /\ now' = now
            /\ rs_rankings' =
                  [i \in 1..Len(rs_rankings) |->
                     [rs_rankings[i] EXCEPT
                        !.createdAt = OneBack(@),
                        !.generatedAt = OneBack(@),
                        !.aiInsight = IF @ = NoInsight THEN @
                                      ELSE [@ EXCEPT !.generatedAt = OneBack(@)]]]
    /\ nextCall' = IF calls = {} THEN 0 ELSE nextCall
    /\ UNCHANGED <<outer, created, calls, openaiConfigured, storeF, lastSave, schedF,
                   rs_currentRankingId, rs_feedback, sched, timers>>

F_Tick == Advance(MaxTimeF)

\* OPENAI_API_KEY is set or unset in the environment
SetEnv ==
    /\ openaiConfigured' = ~openaiConfigured
    /\ UNCHANGED <<outer, now, created, calls, nextCall, storeF, lastSave,
                   schedF, storeK, sched, timers>>

\* OPENAI_API_KEY is put into the environment of a process that lacks it
SetKey == ~openaiConfigured /\ SetEnv

----------------------------------------------------------------------------
(* Server paths and functional scheduler over the functional store *)

\* POST /api/scrape, scraper exit code 0: store the ranking, start the
\* detached initial scoring
F_Scrape(articles) ==
    /\ created < MaxCreatedF
    /\ nextCall < MaxCalls
    /\ createRankingRecord(articles)
    /\ calls' = calls \cup
          {Call(generateRequestId(1), "initial", 0, RankingRecord(created + 1, articles))}
    /\ nextCall' = nextCall + 1
    /\ UNCHANGED <<outer, now, openaiConfigured, feedbackEntries, lastSave,
                   schedF, storeK, sched, timers>>

\* POST /api/ai/rescore up to its await; rankingId = NoId asks for the current one
F_ManualRescore(rankingId) ==
    LET ranking == IF rankingId # NoId THEN getRankingById(rankingId) ELSE getCurrentRanking
    IN /\ nextCall < MaxCalls
       /\ ranking.id # NoId
       /\ calls' = calls \cup {Call(generateRequestId(1), "manual", 0, ranking)}
       /\ nextCall' = nextCall + 1
       /\ UNCHANGED <<outer, now, created, openaiConfigured, storeF, lastSave,
                      schedF, storeK, sched, timers>>

\* runNow of the functional scheduler: runRescoreOnce up to its await
F_RunRescoreOnce ==
    LET ranking == getCurrentRanking
    IN /\ nextCall < MaxCalls
       /\ ranking.id # NoId
       /\ calls' = calls \cup {Call(generateRequestId(1), "runNow", 0, ranking)}
       /\ nextCall' = nextCall + 1
       /\ UNCHANGED <<outer, now, created, openaiConfigured, storeF, lastSave,
                      schedF, storeK, sched, timers>>

\* the interval timer of the functional scheduler fires: runRescoreOnce up to
\* its await, or to its return when there is no ranking
F_TimerTick ==
    LET ranking == getCurrentRanking
    IN /\ f_timers # {}
       /\ IF ranking.id = NoId
          THEN UNCHANGED vars
          ELSE /\ nextCall < MaxCalls
               /\ calls' = calls \cup {Call(generateRequestId(1), "timer", 0, ranking)}
               /\ nextCall' = nextCall + 1
               /\ UNCHANGED <<outer, now, created, openaiConfigured, storeF, lastSave,
                              schedF, storeK, sched, timers>>

\* the functional startReScoringScheduler: clear the timer it holds, arm one
startReScoringScheduler ==
    LET kept == f_timers \ {intervalHandle}
        handle == CHOOSE h \in 1..(Cardinality(kept) + 1) : h \notin kept
    IN /\ f_timers' = kept \cup {handle}
       /\ intervalHandle' = handle
       /\ UNCHANGED <<outer, now, created, calls, nextCall, openaiConfigured, storeF, lastSave,
                      storeK, sched, timers>>

\* stop() of the object the functional startReScoringScheduler returns
F_stop ==
    IF intervalHandle = NoId
    THEN UNCHANGED vars
    ELSE /\ f_timers' = f_timers \ {intervalHandle}
         /\ intervalHandle' = NoId
         /\ UNCHANGED <<outer, now, created, calls, nextCall, openaiConfigured, storeF, lastSave,
                        storeK, sched, timers>>

\* requestAIScoring resolves and its awaiter saves the result
F_CallReturn(c, ok) ==
    /\ c \in calls
    /\ calls' = calls \ {c}
    /\ saveAIInsight(c.rankingId, requestAIScoring(c, ok))
    /\ UNCHANGED <<outer, now, created, nextCall, openaiConfigured,
                   rankingHistory, rankingOrder, feedbackEntries, currentRankingId,
                   schedF, storeK, sched, timers>>

\* F_SubmitFeedback without the upper bound of the position check
F_SubmitFeedbackAnyPosition(rankingId, articlePosition, vote) ==
    LET ranking == getRankingById(rankingId)
    IN /\ Len(feedbackEntries) < MaxFeedback
       /\ rankingId # NoId
       /\ ranking.id # NoId
       /\ vote \in FEEDBACK_VOTES
       /\ articlePosition >= 1
       /\ addFeedback(rankingId, articlePosition, vote)
       /\ UNCHANGED <<outer, now, created, calls, nextCall, openaiConfigured,
                      rankingHistory, rankingOrder, aiInsights, currentRankingId, lastSave,
                      schedF, storeK, sched, timers>>

\* POST /api/feedback: the checks of the route, then addFeedback; a rejected
\* submission answers 4xx and changes nothing
F_SubmitFeedback(rankingId, articlePosition, vote) ==
    LET ranking == getRankingById(rankingId)
    IN /\ Len(feedbackEntries) < MaxFeedback
       /\ rankingId # NoId
       /\ ranking.id # NoId
       /\ vote \in FEEDBACK_VOTES
       /\ articlePosition >= 1
       /\ articlePosition <= Len(ranking.articles)
       /\ addFeedback(rankingId, articlePosition, vote)
       /\ UNCHANGED <<outer, now, created, calls, nextCall, openaiConfigured,
                      rankingHistory, rankingOrder, aiInsights, currentRankingId, lastSave,
                      schedF, storeK, sched, timers>>

----------------------------------------------------------------------------
(* Class-based RankingStore *)

\* the record RankingStore.createRankingRecord builds
RsRankingRecord(id, articles) ==
    [id |-> id, articles |-> articles, generatedAt |-> now, createdAt |-> now,
     aiInsight |-> NoInsight]

rs_createRankingRecord(articles) ==
    LET id == created + 1
    IN /\ created' = id
       /\ rs_rankings' = Append(rs_rankings, RsRankingRecord(id, articles))
       /\ rs_currentRankingId' = id
       /\ UNCHANGED rs_feedback

RsIds == {rs_rankings[i].id : i \in 1..Len(rs_rankings)}

rs_getRankingById(id) ==
    IF id \in RsIds
    THEN rs_rankings[CHOOSE i \in 1..Len(rs_rankings) : rs_rankings[i].id = id]
    ELSE NoRanking

rs_getCurrentRanking ==
    IF rs_currentRankingId = NoId THEN NoRanking
    ELSE rs_getRankingById(rs_currentRankingId)

\* ranking.aiInsight = {...aiResult, generatedAt: now}, if the ranking is stored
rs_saveAIInsight(rankingId, aiResult) ==
    /\ rs_rankings' = [i \in 1..Len(rs_rankings) |->
            IF rs_rankings[i].id = rankingId
            THEN [rs_rankings[i] EXCEPT !.aiInsight =
                     [requestId |-> aiResult.requestId, rankingId |-> aiResult.rankingId,
                      success |-> aiResult.success, generatedAt |-> now]]
            ELSE rs_rankings[i]]
    /\ UNCHANGED rs_feedback

\* the key under which this.feedback holds a list for rankingId, if any
RsFeedbackKeys == {rs_feedback[i].rankingId : i \in 1..Len(rs_feedback)}

\* this.feedback.get(rankingId) || []
rs_feedbackOf(rankingId) ==
    IF rankingId \in RsFeedbackKeys
    THEN rs_feedback[CHOOSE i \in 1..Len(rs_feedback) :
                        rs_feedback[i].rankingId = rankingId].entries
    ELSE <<>>

\* the record RankingStore.addFeedback builds; generateId gives an id that
\* differs from the id of every other entry
RsFeedbackRecord(rankingId, articlePosition, vote) ==
    [id |-> <<rankingId, Len(rs_feedbackOf(rankingId)) + 1>>, rankingId |-> rankingId,
     articlePosition |-> articlePosition, vote |-> vote, submittedAt |-> now]

rs_addFeedback(rankingId, articlePosition, vote) ==
    LET feedback == RsFeedbackRecord(rankingId, articlePosition, vote)
    IN rs_feedback' =
          IF rankingId \notin RsFeedbackKeys
          THEN Append(rs_feedback, [rankingId |-> rankingId, entries |-> <<feedback>>])
          ELSE [i \in 1..Len(rs_feedback) |->
                   IF rs_feedback[i].rankingId = rankingId
                   THEN [rs_feedback[i] EXCEPT !.entries = Append(@, feedback)]
                   ELSE rs_feedback[i]]

\* the lists of this.feedback.values(), one after the other
RECURSIVE RsAllFeedback(_)
RsAllFeedback(k) ==
    IF k = 0 THEN <<>> ELSE RsAllFeedback(k - 1) \o rs_feedback[k].entries

\* sort((a, b) => new Date(b.submittedAt) - new Date(a.submittedAt)): the
\* entries submitted at t, in the order they have in s (the sort is stable),
\* followed by those submitted before t, latest first
RECURSIVE SortBySubmittedAtDescFrom(_, _)
SortBySubmittedAtDescFrom(s, t) ==
    SelectSeq(s, LAMBDA e : e.submittedAt = t)
        \o (IF t = 0 THEN <<>> ELSE SortBySubmittedAtDescFrom(s, t - 1))

SortBySubmittedAtDesc(s) == SortBySubmittedAtDescFrom(s, MaxTime)

\* RankingStore.listFeedback; rankingId = NoId is a call without the filter
rs_listFeedback(rankingId) ==
    IF rankingId # NoId THEN rs_feedbackOf(rankingId)
    ELSE SortBySubmittedAtDesc(RsAllFeedback(Len(rs_feedback)))

rs_getAIInsight(rankingId) ==
    LET ranking == rs_getRankingById(rankingId)
    IN IF ranking.id = NoId THEN NoInsight ELSE ranking.aiInsight

\* the position sort() gives r among the already sorted ones: behind every
\* ranking created at the same time or later (the sort is stable)
SortedInsert(sorted, r) ==
    LET k == Cardinality({i \in 1..Len(sorted) : sorted[i].createdAt >= r.createdAt})
    IN SubSeq(sorted, 1, k) \o <<r>> \o SubSeq(sorted, k + 1, Len(sorted))

RECURSIVE SortByCreatedAtDesc(_)
SortByCreatedAtDesc(s) ==
    IF s = <<>> THEN <<>>
    ELSE SortedInsert(SortByCreatedAtDesc(SubSeq(s, 1, Len(s) - 1)), s[Len(s)])

getAllRankings == SortByCreatedAtDesc(rs_rankings)

\* IsOld with the comparison turned round: the young rankings go
IsYoung(ranking, maxAge) == ranking.createdAt > now - maxAge

\* the rankings cleanupOldRankings deletes
IsOld(ranking, maxAge) == ranking.createdAt < now - maxAge

\* cleanupOldRankings that drops the feedback of every ranking when it
\* removes one
cleanupOldRankingsAllFeedback(maxAge) ==
    /\ rs_rankings' = SelectSeq(rs_rankings, LAMBDA r : ~IsOld(r, maxAge))
    /\ rs_currentRankingId' =
          IF \E i \in 1..Len(rs_rankings) :
                 IsOld(rs_rankings[i], maxAge) /\ rs_rankings[i].id = rs_currentRankingId
          THEN NoId ELSE rs_currentRankingId
    /\ rs_feedback' = IF \E i \in 1..Len(rs_rankings) : IsOld(rs_rankings[i], maxAge)
                      THEN <<>> ELSE rs_feedback

cleanupOldRankings(maxAge) ==
    /\ rs_rankings' = SelectSeq(rs_rankings, LAMBDA r : ~IsOld(r, maxAge))
    /\ rs_currentRankingId' =
          IF \E i \in 1..Len(rs_rankings) :
                 IsOld(rs_rankings[i], maxAge) /\ rs_rankings[i].id = rs_currentRankingId
          THEN NoId ELSE rs_currentRankingId
    /\ rs_feedback' = SelectSeq(rs_feedback, LAMBDA f :
          ~\E i \in 1..Len(rs_rankings) :
               IsOld(rs_rankings[i], maxAge) /\ rs_rankings[i].id = f.rankingId)

----------------------------------------------------------------------------
(* Class-based ReScoringScheduler *)

hasRecentInsight(insight) ==
    IF insight = NoInsight THEN FALSE
    ELSE now - insight.generatedAt < rescoreThreshold

\* NeedsReScoring with >= for >: an insight exactly as old as the threshold
\* is selected too
NeedsReScoringAtThreshold(ranking) ==
    IF Len(ranking.articles) = 0 THEN FALSE
    ELSE IF ranking.aiInsight # NoInsight
         THEN now - ranking.aiInsight.generatedAt >= rescoreThreshold
         ELSE TRUE

\* the filter of getRankingsForReScoring
NeedsReScoring(ranking) ==
    IF Len(ranking.articles) = 0 THEN FALSE
    ELSE IF ranking.aiInsight # NoInsight
         THEN now - ranking.aiInsight.generatedAt > rescoreThreshold
         ELSE TRUE

getRankingsForReScoring == SelectSeq(getAllRankings, NeedsReScoring)

\* MaxJobsReached with > for >=
MaxJobsExceeded == Cardinality(activeJobs) > maxConcurrentJobs

\* the gate of runReScoringCycle
MaxJobsReached == Cardinality(activeJobs) >= maxConcurrentJobs

\* CycleBatch without the slice: a job for every ranking selected
CycleBatchUnbounded == getRankingsForReScoring

\* the rankings a cycle hands to processRankingReScoring
CycleBatch == Slice(getRankingsForReScoring, maxConcurrentJobs)

\* JobCallsProvider without the isAvailable check
JobCallsProviderUnchecked(ranking) ==
    ~hasRecentInsight(rs_getAIInsight(ranking.id))

\* JobCallsProvider with the isAvailable check negated
JobCallsProviderUnavailable(ranking) ==
    /\ ~openaiConfigured
    /\ ~hasRecentInsight(rs_getAIInsight(ranking.id))

\* processRankingReScoring gets as far as requestAIScoring
JobCallsProvider(ranking) ==
    /\ openaiConfigured
    /\ ~hasRecentInsight(rs_getAIInsight(ranking.id))

CycleIds == {cy.id : cy \in cycles}

\* generateCycleId: an id that differs from every cycle id still referred to
generateCycleId == CHOOSE k \in 1..(Cardinality(cycles) + 1) : k \notin CycleIds

\* AllSettled as Promise.race would have it: at most one job is pending
AllButOneSettled(k) ==
    Cardinality({c \in calls : c.path = "job" /\ c.cycle = k}) <= 1

\* Promise.allSettled(jobs) of cycle k has resolved: no job of it is pending
AllSettled(k) == \A c \in calls : ~(c.path = "job" /\ c.cycle = k)

\* what runReScoringCycle logs when it returns or first suspends
CycleOutcome ==
    IF MaxJobsReached THEN "max-concurrent-jobs-reached"
    ELSE IF Len(getRankingsForReScoring) = 0 THEN "no-rankings"
    ELSE "cycle-started"

\* runReScoringCycle up to its await: the gate, the selection, and every job
\* of the batch up to its own await (a job that skips has already released
\* its job id by then)
runReScoringCycle ==
    IF MaxJobsReached \/ Len(getRankingsForReScoring) = 0
    THEN UNCHANGED <<activeJobs, calls, nextCall, cycles>>
    ELSE LET cycleId == generateCycleId
             batch == CycleBatch
             called == SelectSeq(batch, JobCallsProvider)
         IN /\ Cardinality(cycles) < MaxCycles
            /\ nextCall + Len(called) <= MaxCalls
            /\ nextCall' = nextCall + Len(called)
            /\ activeJobs' = activeJobs \cup
                   {<<cycleId, called[i].id>> : i \in 1..Len(called)}
            /\ calls' = calls \cup
                   {Call(generateRequestId(i), "job", cycleId, called[i]) :
                    i \in 1..Len(called)}
            /\ cycles' = cycles \cup
                   {[id |-> cycleId,
                     selected |-> [i \in 1..Len(getRankingsForReScoring) |->
                                      getRankingsForReScoring[i].id],
                     jobs |-> [i \in 1..Len(batch) |-> batch[i].id],
                     called |-> [i \in 1..Len(called) |-> called[i].id],
                     requestIds |-> [i \in 1..Len(called) |-> generateRequestId(i)]]}

\* the interval timer fires
TimerTick ==
    /\ timers # {}
    /\ runReScoringCycle
    /\ schedLog' = CycleOutcome
    /\ UNCHANGED <<outer, now, created, openaiConfigured, storeF, lastSave, schedF,
                   storeK, isRunning, intervalId, intervalMs, maxConcurrentJobs, timers>>

\* getStatus(): nextRun is Date.now() + intervalMs, null when not running
getStatus ==
    [isRunning |-> isRunning,
     intervalMs |-> intervalMs,
     maxConcurrentJobs |-> maxConcurrentJobs,
     activeJobs |-> Cardinality(activeJobs),
     activeJobIds |-> activeJobs,
     nextRun |-> IF isRunning THEN <<now, intervalMs>> ELSE <<>>]

forceCycle ==
    /\ runReScoringCycle
    /\ schedLog' = CycleOutcome
    /\ UNCHANGED <<outer, now, created, openaiConfigured, storeF, lastSave, schedF,
                   storeK, isRunning, intervalId, intervalMs, maxConcurrentJobs, timers>>

\* updateConfig that arms a timer with the new interval and leaves the old
\* one armed
updateConfigRearms(config) ==
    /\ intervalMs' = IF config.intervalMs # 0 /\ config.intervalMs > 0
                     THEN config.intervalMs ELSE intervalMs
    /\ maxConcurrentJobs' = IF config.maxConcurrentJobs # 0 /\ config.maxConcurrentJobs > 0
                            THEN config.maxConcurrentJobs ELSE maxConcurrentJobs
    /\ LET handle == CHOOSE h \in 1..(Cardinality(timers) + 1) : h \notin timers
       IN IF isRunning /\ intervalMs' # intervalMs
          THEN intervalId' = handle /\ timers' = timers \cup {handle}
          ELSE UNCHANGED <<intervalId, timers>>
    /\ UNCHANGED <<outer, now, created, calls, nextCall, openaiConfigured, storeF, lastSave,
                   schedF, storeK, isRunning, activeJobs, cycles, schedLog>>

\* updateConfig without the > 0 checks: every given value is taken
updateConfigUnchecked(config) ==
    /\ intervalMs' = IF config.intervalMs # 0 THEN config.intervalMs ELSE intervalMs
    /\ maxConcurrentJobs' = IF config.maxConcurrentJobs # 0
                            THEN config.maxConcurrentJobs ELSE maxConcurrentJobs
    /\ UNCHANGED <<outer, now, created, calls, nextCall, openaiConfigured, storeF, lastSave,
                   schedF, storeK, isRunning, intervalId, activeJobs, cycles, schedLog,
                   timers>>

\* updateConfig: a field is taken when it is present and positive
updateConfig(config) ==
    /\ intervalMs' = IF config.intervalMs # 0 /\ config.intervalMs > 0
                     THEN config.intervalMs ELSE intervalMs
    /\ maxConcurrentJobs' = IF config.maxConcurrentJobs # 0 /\ config.maxConcurrentJobs > 0
                            THEN config.maxConcurrentJobs ELSE maxConcurrentJobs
    /\ UNCHANGED <<outer, now, created, calls, nextCall, openaiConfigured, storeF, lastSave,
                   schedF, storeK, isRunning, intervalId, activeJobs, cycles, schedLog,
                   timers>>

\* start without the isRunning check
startAgain(ms) ==
    /\ intervalMs' = ms
    /\ isRunning' = TRUE
    /\ runReScoringCycle
    /\ LET handle == CHOOSE h \in 1..(Cardinality(timers) + 1) : h \notin timers
       IN /\ intervalId' = handle
          /\ timers' = timers \cup {handle}
    /\ timerMs' = ms
    /\ schedLog' = CycleOutcome
    /\ UNCHANGED <<outerRest, now, created, openaiConfigured, storeF, lastSave, schedF,
                   storeK, maxConcurrentJobs>>

start(ms) ==
    IF isRunning
    THEN UNCHANGED vars
    ELSE /\ intervalMs' = ms
         /\ isRunning' = TRUE
         /\ runReScoringCycle
         /\ LET handle == CHOOSE h \in 1..(Cardinality(timers) + 1) : h \notin timers
            IN /\ intervalId' = handle
               /\ timers' = timers \cup {handle}
         /\ timerMs' = ms
         /\ schedLog' = CycleOutcome
         /\ UNCHANGED <<outerRest, now, created, openaiConfigured, storeF, lastSave, schedF,
                        storeK, maxConcurrentJobs>>

\* stop without clearInterval
stopKeepsTimer ==
    IF ~isRunning
    THEN UNCHANGED vars
    ELSE /\ isRunning' = FALSE
         /\ intervalId' = NoId
         /\ UNCHANGED <<outer, now, created, calls, nextCall, openaiConfigured, storeF, lastSave,
                        schedF, storeK, intervalMs, maxConcurrentJobs, activeJobs, cycles,
                        schedLog, timers>>

stop ==
    IF ~isRunning
    THEN UNCHANGED vars
    ELSE /\ isRunning' = FALSE
         /\ intervalId' = NoId
         /\ timers' = timers \ {intervalId}
         /\ timerMs' = 0
         /\ UNCHANGED <<outerRest, now, created, calls, nextCall, openaiConfigured, storeF, lastSave,
                        schedF, storeK, intervalMs, maxConcurrentJobs, activeJobs, cycles,
                        schedLog>>

\* JobReturn without the finally block: a failed call keeps its job id
JobReturnKeepsSlot(c, ok) ==
    /\ c \in calls
    /\ c.path = "job"
    /\ calls' = calls \ {c}
    /\ rs_saveAIInsight(c.rankingId, requestAIScoring(c, ok))
    /\ activeJobs' = IF ok THEN activeJobs \ {<<c.cycle, c.rankingId>>} ELSE activeJobs
    /\ UNCHANGED <<outer, now, created, nextCall, openaiConfigured, storeF, lastSave, schedF,
                   rs_currentRankingId, isRunning, intervalId, intervalMs, maxConcurrentJobs,
                   cycles, schedLog, timers>>

\* JobReturn whose failure escapes to the timer driver and ends the timer
JobReturnHaltsTimer(c, ok) ==
    /\ c \in calls
    /\ c.path = "job"
    /\ calls' = calls \ {c}
    /\ rs_saveAIInsight(c.rankingId, requestAIScoring(c, ok))
    /\ activeJobs' = activeJobs \ {<<c.cycle, c.rankingId>>}
    /\ timers' = IF ok THEN timers ELSE timers \ {intervalId}
    /\ UNCHANGED <<outer, now, created, nextCall, openaiConfigured, storeF, lastSave, schedF,
                   rs_currentRankingId, isRunning, intervalId, intervalMs, maxConcurrentJobs,
                   cycles, schedLog>>

\* the provider call of a scheduler job resolves: the job saves the result
\* and releases its job id
JobReturn(c, ok) ==
    /\ c \in calls
    /\ c.path = "job"
    /\ calls' = calls \ {c}
    /\ rs_saveAIInsight(c.rankingId, requestAIScoring(c, ok))
    /\ activeJobs' = activeJobs \ {<<c.cycle, c.rankingId>>}
    /\ UNCHANGED <<outer, now, created, nextCall, openaiConfigured, storeF, lastSave, schedF,
                   rs_currentRankingId, isRunning, intervalId, intervalMs, maxConcurrentJobs,
                   cycles, schedLog, timers>>

\* the cycle's await Promise.allSettled(jobs) resumes and the cycle ends
CycleCompleted(cy) ==
    /\ cy \in cycles
    /\ AllSettled(cy.id)
    /\ cycles' = cycles \ {cy}
    /\ UNCHANGED <<outer, now, created, calls, nextCall, openaiConfigured, storeF, lastSave,
                   schedF, storeK, isRunning, intervalId, intervalMs, maxConcurrentJobs,
                   activeJobs, schedLog, timers>>

----------------------------------------------------------------------------
(* Server paths and store clients over the class-based store *)

\* a direct client of the store creates a snapshot
CreateRanking(articles) ==
    /\ created < MaxCreated
    /\ rs_createRankingRecord(articles)
    /\ UNCHANGED <<outer, now, calls, nextCall, openaiConfigured, storeF, lastSave,
                   schedF, sched, timers>>

\* articles: data.articles || [] with the given list dropped
ArticlesAlwaysEmpty(data) == <<>>

\* articles: data.articles || []
ArticlesOrEmpty(data) == IF "articles" \in DOMAIN data THEN data.articles ELSE <<>>

\* a direct client of the store creates a snapshot from data that may lack
\* the article list
CreateRankingOf(data) ==
    /\ created < MaxCreated
    /\ rs_createRankingRecord(ArticlesOrEmpty(data))
    /\ UNCHANGED <<outer, now, calls, nextCall, openaiConfigured, storeF, lastSave,
                   schedF, sched, timers>>

\* a direct client of the store creates a snapshot, up to one more than
\* MAX_RANKINGS_STORED of them
CreateRankingBeyond(articles) ==
    /\ created < MaxCreatedF
    /\ rs_createRankingRecord(articles)
    /\ UNCHANGED <<outer, now, calls, nextCall, openaiConfigured, storeF, lastSave,
                   schedF, sched, timers>>

\* POST /api/feedback over the class-based store: the checks of the route,
\* then addFeedback; a rejected submission answers 4xx and changes nothing
SubmitFeedback(rankingId, articlePosition, vote) ==
    LET ranking == rs_getRankingById(rankingId)
    IN /\ Len(RsAllFeedback(Len(rs_feedback))) < MaxFeedbackK
       /\ rankingId # NoId
       /\ ranking.id # NoId
       /\ vote \in FEEDBACK_VOTES
       /\ articlePosition >= 1
       /\ articlePosition <= Len(ranking.articles)
       /\ rs_addFeedback(rankingId, articlePosition, vote)
       /\ UNCHANGED <<outer, now, created, calls, nextCall, openaiConfigured, storeF, lastSave,
                      schedF, rs_rankings, rs_currentRankingId, sched, timers>>

\* POST /api/scrape, scraper exit code 0
Scrape(articles) ==
    /\ created < MaxCreated
    /\ nextCall < MaxCalls
    /\ rs_createRankingRecord(articles)
    /\ calls' = calls \cup
          {Call(generateRequestId(1), "initial", 0, RsRankingRecord(created + 1, articles))}
    /\ nextCall' = nextCall + 1
    /\ UNCHANGED <<outer, now, openaiConfigured, storeF, lastSave, schedF, sched, timers>>

\* POST /api/ai/rescore up to its await
ManualRescore(rankingId) ==
    LET ranking == IF rankingId # NoId THEN rs_getRankingById(rankingId)
                   ELSE rs_getCurrentRanking
    IN /\ nextCall < MaxCalls
       /\ ranking.id # NoId
       /\ calls' = calls \cup {Call(generateRequestId(1), "manual", 0, ranking)}
       /\ nextCall' = nextCall + 1
       /\ UNCHANGED <<outer, now, created, openaiConfigured, storeF, lastSave,
                      schedF, storeK, sched, timers>>

\* requestAIScoring resolves for the scrape or the manual rescore awaiting it
CallReturn(c, ok) ==
    /\ c \in calls
    /\ c.path # "job"
    /\ calls' = calls \ {c}
    /\ rs_saveAIInsight(c.rankingId, requestAIScoring(c, ok))
    /\ UNCHANGED <<outer, now, created, nextCall, openaiConfigured, storeF, lastSave, schedF,
                   rs_currentRankingId, sched, timers>>

\* a client of the store runs cleanupOldRankings
Cleanup(maxAge) ==
    /\ cleanupOldRankings(maxAge)
    /\ UNCHANGED <<outer, now, created, calls, nextCall, openaiConfigured, storeF, lastSave,
                   schedF, sched, timers>>

----------------------------------------------------------------------------
(* The scraper script *)

\* parseArticleTimestamp: the ISO time if it parses, else the reference time
\* less the age the time text gives, else the reference time
parseArticleTimestamp(article, referenceTimestamp) ==
    IF "timeISO" \in DOMAIN article /\ article.timeISO # InvalidTime
    THEN article.timeISO
    ELSE IF "timeText" \in DOMAIN article
         THEN referenceTimestamp - article.timeText
         ELSE referenceTimestamp

\* validateArticleSorting: the positions (counted from 1) of the articles
\* that are older than their successor
validateArticleSorting(timestamps) ==
    LET positions == [i \in 1..(Len(timestamps) - 1) |-> i]
        sortingErrors == SelectSeq(positions,
                                   LAMBDA i : timestamps[i] < timestamps[i + 1])
    IN [isCorrectlySorted |-> sortingErrors = <<>>, sortingErrors |-> sortingErrors]

\* validateHackerNewsArticleSorting, given what was collected from the pages;
\* the script calls it once and exits
validateHackerNewsArticleSorting(allCollectedArticles, currentTimestamp) ==
    LET articlesForValidation == Slice(allCollectedArticles, REQUIRED_ARTICLE_COUNT)
        timestamps == [i \in 1..Len(articlesForValidation) |->
                          parseArticleTimestamp(articlesForValidation[i], currentTimestamp)]
        result == validateArticleSorting(timestamps)
    IN /\ scraperRun.outcome = "none"
       /\ scraperRun' =
             IF Len(articlesForValidation) < CriticalArticleCount
             THEN [outcome |-> "error", collected |-> allCollectedArticles]
             ELSE [outcome |-> "validated", collected |-> allCollectedArticles,
                   timestamps |-> timestamps,
                   isCorrectlySorted |-> result.isCorrectlySorted,
                   sortingErrors |-> result.sortingErrors]
       /\ UNCHANGED <<api, articleStore, services, timerMs, now, created, calls, nextCall, openaiConfigured,
                      storeF, lastSave, schedF, storeK, sched, timers>>

----------------------------------------------------------------------------
(* POST /api/articles/score with authenticateRequest and rateLimitMiddleware *)

\* process.env[name] || fallback
EnvOr(name, fallback) == IF name \in DOMAIN env THEN env[name] ELSE fallback

\* extractApiKey: the X-API-Key header, else the Bearer token, else null ("")
extractApiKey(req) ==
    IF req.xApiKey # "" THEN req.xApiKey
    ELSE IF req.authorization = "" THEN ""
    ELSE BearerToken[req.authorization]

\* authenticateRequest calls next() with any key when one is configured
authenticateAnyKey(req) ==
    LET expectedApiKey == EnvOr("API_KEY", EnvOr("ARTICLE_SCORING_API_KEY", ""))
    IN IF expectedApiKey = "" THEN TRUE
       ELSE extractApiKey(req) # ""

\* authenticateRequest calls next()
authenticateRequest(req) ==
    LET expectedApiKey == EnvOr("API_KEY", EnvOr("ARTICLE_SCORING_API_KEY", ""))
    IN IF expectedApiKey = "" THEN TRUE
       ELSE extractApiKey(req) # "" /\ extractApiKey(req) = expectedApiKey

getRateLimitConfig ==
    [windowMs |-> EnvOr("RATE_LIMIT_WINDOW_MS", defaultWindowMs),
     maxRequests |-> EnvOr("RATE_LIMIT_MAX", defaultMaxRequests)]

getClientIdentifier(req) ==
    IF req.xApiKey # "" THEN <<"key", req.xApiKey>>
    ELSE IF req.authorization # "" THEN <<"auth", req.authorization>>
    ELSE <<"ip", req.ip>>

\* the bucket is missing or has expired: the request opens a new window
OpensWindow(identifier) ==
    \/ identifier \notin DOMAIN buckets
    \/ buckets[identifier].expiresAt <= now

\* LimitReached with > for >=
LimitExceeded(identifier) ==
    buckets[identifier].count > getRateLimitConfig.maxRequests

\* the live bucket is full: the request is answered 429
LimitReached(identifier) ==
    buckets[identifier].count >= getRateLimitConfig.maxRequests

\* rateLimitMiddleware: the buckets after the request, and whether it calls next()
rateLimitMiddleware(req) ==
    LET config == getRateLimitConfig
        identifier == getClientIdentifier(req)
    IN IF config.maxRequests = 0 \/ config.maxRequests < 0
       THEN [buckets |-> buckets, next |-> TRUE]
       ELSE IF OpensWindow(identifier)
       THEN [buckets |-> MapSet(buckets, identifier,
                                [count |-> 1, expiresAt |-> now + config.windowMs]),
             next |-> TRUE]
       ELSE IF LimitReached(identifier)
       THEN [buckets |-> buckets, next |-> FALSE]
       ELSE [buckets |-> [buckets EXCEPT ![identifier].count = @ + 1], next |-> TRUE]

\* POST /api/articles/score: authenticateRequest, rateLimitMiddleware, then
\* the handler; ok is whether rankArticles resolves
PostArticlesScore(req, ok) ==
    LET limited == rateLimitMiddleware(req)
        status == IF ~authenticateRequest(req) THEN 401
                  ELSE IF ~limited.next THEN 429
                  ELSE IF Len(req.articles) = 0 THEN 400
                  ELSE IF ok THEN 200 ELSE 502
    IN /\ served < MaxRequests
       /\ served' = served + 1
       /\ buckets' = IF status = 401 THEN buckets ELSE limited.buckets
       /\ scoringCalls' = IF status \in {200, 502} THEN scoringCalls + 1 ELSE scoringCalls
       /\ lastResponse' = [req |-> req, status |-> status]
       /\ UNCHANGED <<env, scraperRun, articleStore, services, timerMs, now, created, calls, nextCall,
                      openaiConfigured, storeF, lastSave, schedF, storeK, sched, timers>>

\* the operator sets the environment before the server takes requests
SetApiEnv(values) ==
    /\ served = 0
    /\ env = EmptyMap
    /\ env' = values
    /\ UNCHANGED <<buckets, served, scoringCalls, lastResponse, scraperRun, articleStore, services, timerMs,
                   now, created, calls, nextCall, openaiConfigured, storeF, lastSave, schedF,
                   storeK, sched, timers>>

----------------------------------------------------------------------------
(* The in-memory article store (data/articles) and a caller *)

\* the values of the fields the caller writes
Titles == {"Original", "Mutated"}
Totals == {1, 99}

\* the objects {...article} makes of the articles of the array at address
\* articles, followed by the array map() returns: its items are the
\* addresses the copies get when appended to heap h
cloneArticles(h, articles) ==
    LET items == h[articles].items
    IN [i \in 1..Len(items) |-> h[items[i]]]
          \o <<[kind |-> "array", items |-> [i \in 1..Len(items) |-> Len(h) + i]]>>

\* the object {...metadata} makes, none for null: the copy's fields hold the
\* same values, so a field that holds an address refers to the same object
cloneMetadata(h, metadata) ==
    IF metadata = NoId THEN <<>> ELSE <<h[metadata]>>

\* saveArticles that checks its articles after it has stored the metadata
saveArticlesValidatesLate(articles, metadata) ==
    LET copies == cloneArticles(heap, articles)
        h == heap \o copies
        copy == cloneMetadata(h, metadata)
    IN /\ IF heap[articles].kind # "array"
          THEN /\ Len(heap \o cloneMetadata(heap, metadata)) <= MaxHeap
               /\ heap' = heap \o cloneMetadata(heap, metadata)
               /\ storedMetadata' = IF metadata = NoId THEN NoId ELSE Len(heap) + 1
               /\ saveError' = "TypeError"
               /\ UNCHANGED storedArticles
          ELSE /\ Len(h \o copy) <= MaxHeap
               /\ heap' = h \o copy
               /\ storedArticles' = Len(h)
               /\ storedMetadata' = IF metadata = NoId THEN NoId ELSE Len(h) + 1
               /\ saveError' = "none"
       /\ UNCHANGED <<held, scraperRun, api, services, timerMs, now, created, calls, nextCall,
                      openaiConfigured, storeF, lastSave, schedF, storeK, sched, timers>>

\* saveArticles that leaves the stored metadata alone when none is passed
saveArticlesKeepsMetadata(articles, metadata) ==
    LET copies == cloneArticles(heap, articles)
        h == heap \o copies
        copy == cloneMetadata(h, metadata)
    IN /\ IF heap[articles].kind # "array"
          THEN /\ saveError' = "TypeError"
               /\ UNCHANGED <<heap, storedArticles, storedMetadata>>
          ELSE /\ Len(h \o copy) <= MaxHeap
               /\ heap' = h \o copy
               /\ storedArticles' = Len(h)
               /\ storedMetadata' = IF metadata = NoId THEN storedMetadata ELSE Len(h) + 1
               /\ saveError' = "none"
       /\ UNCHANGED <<held, scraperRun, api, services, timerMs, now, created, calls, nextCall,
                      openaiConfigured, storeF, lastSave, schedF, storeK, sched, timers>>

\* saveArticles({articles, metadata}): validateArticlesInput throws TypeError
\* on a non-array articles before anything is assigned
saveArticles(articles, metadata) ==
    LET copies == cloneArticles(heap, articles)
        h == heap \o copies
        copy == cloneMetadata(h, metadata)
    IN /\ IF heap[articles].kind # "array"
          THEN /\ saveError' = "TypeError"
               /\ UNCHANGED <<heap, storedArticles, storedMetadata>>
          ELSE /\ Len(h \o copy) <= MaxHeap
               /\ heap' = h \o copy
               /\ storedArticles' = Len(h)
               /\ storedMetadata' = IF metadata = NoId THEN NoId ELSE Len(h) + 1
               /\ saveError' = "none"
       /\ UNCHANGED <<held, scraperRun, api, services, timerMs, now, created, calls, nextCall,
                      openaiConfigured, storeF, lastSave, schedF, storeK, sched, timers>>

\* getAllArticles(): the caller gets {articles, metadata}, both fresh copies
getAllArticles ==
    LET copies == cloneArticles(heap, storedArticles)
        h == heap \o copies
        copy == cloneMetadata(h, storedMetadata)
    IN /\ Len(h \o copy) <= MaxHeap
       /\ heap' = h \o copy
       /\ held' = held \cup {Len(h)} \cup (IF storedMetadata = NoId THEN {} ELSE {Len(h) + 1})
       /\ UNCHANGED <<storedArticles, storedMetadata, saveError, scraperRun, api, services, timerMs, now, created, calls,
                      nextCall, openaiConfigured, storeF, lastSave, schedF, storeK, sched,
                      timers>>

\* clearArticles(): storedArticles = [], storedMetadata = null
clearArticles ==
    /\ Len(heap) < MaxHeap
    /\ heap' = Append(heap, [kind |-> "array", items |-> <<>>])
    /\ storedArticles' = Len(heap) + 1
    /\ storedMetadata' = NoId
    /\ UNCHANGED <<held, saveError, scraperRun, api, services, timerMs, now, created, calls, nextCall,
                   openaiConfigured, storeF, lastSave, schedF, storeK, sched, timers>>

\* the caller builds the argument of saveArticles: an article, the array of
\* it, the sortingErrors array and the metadata object
CallerBuilds ==
    LET n == Len(heap)
    IN /\ held = {}
       /\ n + 4 <= MaxHeap
       /\ heap' = heap \o <<[kind |-> "article", title |-> "Original"],
                             [kind |-> "array", items |-> <<n + 1>>],
                             [kind |-> "errors", items |-> <<1>>],
                             [kind |-> "metadata", totalArticles |-> 1,
                              sortingErrors |-> n + 3]>>
       /\ held' = {n + 2, n + 4}
       /\ UNCHANGED <<storedArticles, storedMetadata, saveError, scraperRun, api, services, timerMs, now, created, calls,
                      nextCall, openaiConfigured, storeF, lastSave, schedF, storeK, sched,
                      timers>>

\* the caller calls saveArticles with objects it holds, with or without metadata
CallerSaves(articles, metadata) ==
    /\ articles \in held
    /\ metadata \in {NoId} \cup {a \in held : heap[a].kind = "metadata"}
    /\ saveArticles(articles, metadata)

\* the objects the caller can reach from the addresses it holds
Reachable ==
    held
      \cup UNION {{heap[a].items[i] : i \in 1..Len(heap[a].items)} :
                     a \in {b \in held : heap[b].kind = "array"}}
      \cup {heap[a].sortingErrors : a \in {b \in held : heap[b].kind = "metadata"}}

\* the caller assigns to a field of an object it can reach, or pushes onto
\* an array it can reach
CallerMutates(a) ==
    /\ a \in Reachable
    /\ \/ /\ heap[a].kind = "article"
          /\ \E title \in Titles \ {heap[a].title} :
                heap' = [heap EXCEPT ![a].title = title]
       \/ /\ heap[a].kind = "metadata"
          /\ \E total \in Totals \ {heap[a].totalArticles} :
                heap' = [heap EXCEPT ![a].totalArticles = total]
       \/ /\ heap[a].kind = "errors"
          /\ Len(heap[a].items) < 2
          /\ heap' = [heap EXCEPT ![a].items = Append(@, 2)]
    /\ UNCHANGED <<storedArticles, storedMetadata, held, saveError, scraperRun, api, services, timerMs, now, created,
                   calls, nextCall, openaiConfigured, storeF, lastSave, schedF, storeK,
                   sched, timers>>

----------------------------------------------------------------------------
(* The cache-backed ArticleScoringService *)

DEFAULT_CRITERIA == "overall quality and engagement potential"
\* process.env.OPENAI_MODEL || 'gpt-4o-mini', with OPENAI_MODEL unset
ServiceModel == "gpt-4o-mini"

\* the rawArticles callers pass: none, the same article with its author
\* under either name, and another article
RawArticlesSent ==
    {<<>>,
     <<[title |-> "t", author |-> "x"]>>,
     <<[title |-> "t", by |-> "x"]>>,
     <<[title |-> "u"]>>}
\* options.criteria: absent (""), or spelled out
CriteriaSent == {"", DEFAULT_CRITERIA}
\* what the client does with a request
ClientOutcomes == {"ok", "fail"}

\* rawArticles.map((article, index) => ({id, title, author, ...}))
NormalizeArticles(rawArticles) ==
    [i \in 1..Len(rawArticles) |->
        [id |-> IF "id" \in DOMAIN rawArticles[i] THEN rawArticles[i].id ELSE i,
         title |-> rawArticles[i].title,
         author |-> IF "author" \in DOMAIN rawArticles[i] THEN rawArticles[i].author
                    ELSE IF "by" \in DOMAIN rawArticles[i] THEN rawArticles[i].by
                    ELSE "unknown"]]

\* createCacheKey({articles, criteria, model}): the digest of the JSON text,
\* one for each distinct payload
createCacheKey(rawArticles, criteria) ==
    <<NormalizeArticles(rawArticles),
      IF criteria = "" THEN DEFAULT_CRITERIA ELSE criteria,
      ServiceModel>>

\* scoreArticles(rawArticles, {criteria}) up to its await: it throws on an
\* empty array, answers from the cache, or invokes the client
scoreArticles(rawArticles, criteria) ==
    LET cacheKey == createCacheKey(rawArticles, criteria)
    IN /\ IF rawArticles = <<>>
          THEN /\ svcResult' = [source |-> "error"]
               /\ UNCHANGED <<svcCache, svcPending, svcInvocations, svcStarted>>
          ELSE IF cacheKey \in DOMAIN svcCache
          THEN /\ svcCache' = [svcCache EXCEPT ![cacheKey].lastAccessedAt = now]
               /\ svcResult' = [source |-> "cache", cacheKey |-> cacheKey,
                                createdAt |-> svcCache[cacheKey].createdAt,
                                lastAccessedAt |-> now]
               /\ UNCHANGED <<svcPending, svcInvocations, svcStarted>>
          ELSE /\ svcStarted < MaxScored
               /\ svcStarted' = svcStarted + 1
               /\ svcPending' = svcPending \cup {[id |-> svcStarted + 1, cacheKey |-> cacheKey]}
               /\ svcInvocations' =
                     IF cacheKey \in DOMAIN svcInvocations
                     THEN [svcInvocations EXCEPT ![cacheKey].started = @ + 1]
                     ELSE MapSet(svcInvocations, cacheKey, [started |-> 1, failed |-> 0])
               /\ UNCHANGED <<svcCache, svcResult>>
       /\ UNCHANGED <<scraperRun, api, articleStore, heurSvc, openaiCalls, timerMs, now, created, calls, nextCall,
                      openaiConfigured, storeF, lastSave, schedF, storeK, sched, timers>>

\* the client's promise settles and scoreArticles runs to its end: a
\* response with rankings is cached and returned, anything else throws
ClientReturns(call, outcome) ==
    /\ call \in svcPending
    /\ svcPending' = svcPending \ {call}
    /\ IF outcome = "ok"
       THEN /\ svcCache' = MapSet(svcCache, call.cacheKey,
                                  [createdAt |-> now, lastAccessedAt |-> now])
            /\ svcResult' = [source |-> "api", cacheKey |-> call.cacheKey,
                             createdAt |-> now, lastAccessedAt |-> now]
            /\ UNCHANGED svcInvocations
       ELSE /\ svcResult' = [source |-> "error"]
            /\ svcInvocations' =
                  IF call.cacheKey \in DOMAIN svcInvocations
                  THEN [svcInvocations EXCEPT ![call.cacheKey].failed = @ + 1]
                  ELSE svcInvocations
            /\ UNCHANGED svcCache
    /\ UNCHANGED <<svcStarted, scraperRun, api, articleStore, heurSvc, openaiCalls, timerMs, now, created,
                   calls, nextCall, openaiConfigured, storeF, lastSave, schedF, storeK,
                   sched, timers>>

\* clearCache(); the count of invocations starts again
clearCache ==
    /\ svcCache' = EmptyMap
    /\ svcInvocations' = EmptyMap
    /\ UNCHANGED <<svcPending, svcStarted, svcResult, scraperRun, api, articleStore, heurSvc, openaiCalls, timerMs, now,
                   created, calls, nextCall, openaiConfigured, storeF, lastSave, schedF,
                   storeK, sched, timers>>

\* getAuditLog(): one entry for each value of the cache
getAuditLog == {svcCache[k] : k \in DOMAIN svcCache}

----------------------------------------------------------------------------
(* The heuristic ArticleScoringService *)

\* the articles callers pass: none, two lists with the same titles, and an
\* article without a title
ArticlesRanked ==
    {<<>>,
     <<[title |-> "t", url |-> "u1"]>>,
     <<[title |-> "t", url |-> "u2"]>>,
     <<[url |-> "u3"]>>}
\* options.requestId: absent (""), or the id the caller gives
RequestIdsSent == {"", "r"}

\* generateCacheKey: the titles, '' for a missing one, joined by '|'
generateCacheKey(articles) ==
    [i \in 1..Len(articles) |->
        IF "title" \in DOMAIN articles[i] THEN articles[i].title ELSE ""]

\* getCachedResult finds an entry that has not expired
CacheHit(key) ==
    /\ key \in DOMAIN scoringCache
    /\ now - scoringCache[key] < cacheExpiry

\* ScoringLimitReached with > for >=
ScoringLimitExceeded == Cardinality(activeScoringJobs) > maxConcurrentScoring

\* the concurrency check of rankArticles
ScoringLimitReached == Cardinality(activeScoringJobs) >= maxConcurrentScoring

\* `${requestId}-${Date.now()}`, requestId being options.requestId or a
\* generated one that differs from every other
ScoringJobId(requestId) ==
    <<IF requestId = "" THEN ToString(ranked + 1) ELSE requestId, now>>

\* rankArticles(articles, {requestId}) up to its await of scoreArticles
rankArticles(articles, requestId) ==
    LET cacheKey == generateCacheKey(articles)
        jobId == ScoringJobId(requestId)
    IN /\ IF articles = <<>>
          THEN /\ rankResult' = [outcome |-> "error", statusCode |-> 400]
               /\ UNCHANGED <<activeScoringJobs, rankJobs, ranked>>
          ELSE IF CacheHit(cacheKey)
          THEN /\ rankResult' = [outcome |-> "cached", cacheKey |-> cacheKey]
               /\ UNCHANGED <<activeScoringJobs, rankJobs, ranked>>
          ELSE IF ScoringLimitReached
          THEN /\ rankResult' = [outcome |-> "error", statusCode |-> 429]
               /\ UNCHANGED <<activeScoringJobs, rankJobs, ranked>>
          ELSE /\ ranked < MaxRanked
               /\ ranked' = ranked + 1
               /\ activeScoringJobs' = activeScoringJobs \cup {jobId}
               /\ rankJobs' = rankJobs \cup
                     {[n |-> ranked + 1, jobId |-> jobId, cacheKey |-> cacheKey]}
               /\ UNCHANGED rankResult
       /\ UNCHANGED <<scoringCache, scraperRun, api, articleStore, cacheSvc, openaiCalls, timerMs, now,
                      created, calls, nextCall, openaiConfigured, storeF, lastSave, schedF,
                      storeK, sched, timers>>

\* scoreArticles settles and rankArticles runs to its end: the result is
\* cached unless scoring threw, and the job id is deleted either way
RankReturns(job, ok) ==
    /\ job \in rankJobs
    /\ rankJobs' = rankJobs \ {job}
    /\ activeScoringJobs' = activeScoringJobs \ {job.jobId}
    /\ IF ok
       THEN /\ scoringCache' = MapSet(scoringCache, job.cacheKey, now)
            /\ rankResult' = [outcome |-> "scored", cacheKey |-> job.cacheKey]
       ELSE /\ rankResult' = [outcome |-> "error", statusCode |-> 500]
            /\ UNCHANGED scoringCache
    /\ UNCHANGED <<ranked, scraperRun, api, articleStore, cacheSvc, openaiCalls, timerMs, now, created,
                   calls, nextCall, openaiConfigured, storeF, lastSave, schedF, storeK,
                   sched, timers>>

----------------------------------------------------------------------------
(* AIScoringService.callOpenAI *)

\* how a request attempt can end: with a response that is ok, with one that
\* is not, or with fetch rejecting
AttemptOutcomes == {"ok", "http-error", "network-error"}

\* LastAttempt with > for ===
LastAttemptLate(attempt) == attempt > maxRetries

\* attempt === this.maxRetries
LastAttempt(attempt) == attempt = maxRetries

\* callOpenAI(prompt, requestId) up to its first await: it throws when no
\* API key is configured, and else starts attempt 1
callOpenAI ==
    /\ Len(openaiCalls) < MaxOpenAICalls
    /\ openaiCalls' = Append(openaiCalls,
          IF ~openaiConfigured
          THEN [phase |-> "thrown", attempt |-> 0, fetches |-> 0, failures |-> <<>>,
                delays |-> <<>>, result |-> "not-configured"]
          ELSE [phase |-> "fetching", attempt |-> 1, fetches |-> 1, failures |-> <<>>,
                delays |-> <<>>, result |-> "none"])
    /\ UNCHANGED <<scraperRun, api, articleStore, cacheSvc, heurSvc, timerMs, now, created,
                   calls, nextCall, openaiConfigured, storeF, lastSave, schedF, storeK,
                   sched, timers>>

\* the attempt of call i settles: a response that is ok is returned; any
\* other outcome is caught, and is thrown again on the last attempt or
\* followed by this.delay(retryDelay * attempt)
AttemptSettles(i, outcome) ==
    /\ i \in 1..Len(openaiCalls)
    /\ openaiCalls[i].phase = "fetching"
    /\ openaiCalls' = [openaiCalls EXCEPT ![i] =
          IF outcome = "ok"
          THEN [@ EXCEPT !.phase = "returned", !.result = "content"]
          ELSE IF LastAttempt(@.attempt)
          THEN [@ EXCEPT !.phase = "thrown", !.result = outcome,
                         !.failures = Append(@, outcome)]
          ELSE [@ EXCEPT !.phase = "waiting", !.failures = Append(@, outcome),
                         !.delays = Append(@, retryDelay * openaiCalls[i].attempt)]]
    /\ UNCHANGED <<scraperRun, api, articleStore, cacheSvc, heurSvc, timerMs, now, created,
                   calls, nextCall, openaiConfigured, storeF, lastSave, schedF, storeK,
                   sched, timers>>

\* the delay of call i is over: attempt++, and the loop goes on while
\* attempt <= maxRetries (the function would return undefined after it)
DelayElapses(i) ==
    /\ i \in 1..Len(openaiCalls)
    /\ openaiCalls[i].phase = "waiting"
    /\ openaiCalls' = [openaiCalls EXCEPT ![i] =
          IF @.attempt + 1 <= maxRetries
          THEN [@ EXCEPT !.phase = "fetching", !.attempt = @ + 1, !.fetches = @ + 1]
          ELSE [@ EXCEPT !.phase = "returned", !.attempt = @ + 1, !.result = "undefined"]]
    /\ UNCHANGED <<scraperRun, api, articleStore, cacheSvc, heurSvc, timerMs, now, created,
                   calls, nextCall, openaiConfigured, storeF, lastSave, schedF, storeK,
                   sched, timers>>

----------------------------------------------------------------------------
InitCommon ==
    /\ now = 0
    /\ created = 0
    /\ calls = {}
    /\ nextCall = 0
    /\ rankingHistory = EmptyMap
    /\ rankingOrder = <<>>
    /\ feedbackEntries = <<>>
    /\ aiInsights = EmptyMap
    /\ currentRankingId = NoId
    /\ lastSave = [rankingId |-> NoId, insight |-> NoInsight, returned |-> NoInsight]
    /\ intervalHandle = NoId
    /\ f_timers = {}
    /\ rs_rankings = <<>>
    /\ rs_currentRankingId = NoId
    /\ rs_feedback = <<>>
    /\ scraperRun = [outcome |-> "none"]
    /\ env = EmptyMap
    /\ buckets = EmptyMap
    /\ served = 0
    /\ scoringCalls = 0
    /\ lastResponse = [status |-> 0]
    /\ heap = <<[kind |-> "array", items |-> <<>>]>>
    /\ storedArticles = 1
    /\ storedMetadata = NoId
    /\ held = {}
    /\ saveError = "none"
    /\ svcCache = EmptyMap
    /\ svcPending = {}
    /\ svcInvocations = EmptyMap
    /\ svcStarted = 0
    /\ svcResult = [source |-> "none"]
    /\ scoringCache = EmptyMap
    /\ activeScoringJobs = {}
    /\ rankJobs = {}
    /\ ranked = 0
    /\ rankResult = [outcome |-> "none"]
    /\ openaiCalls = <<>>
    /\ intervalMs = DefaultIntervalMs
    /\ maxConcurrentJobs = DefaultMaxConcurrentJobs
    /\ activeJobs = {}
    /\ cycles = {}

InitF == InitCommon /\ openaiConfigured = TRUE /\ isRunning = FALSE /\ intervalId = NoId
         /\ timers = {} /\ timerMs = 0 /\ schedLog = "none"

NextF ==
    \/ F_Tick
    \/ \E articles \in ArticleLists : F_Scrape(articles)
    \/ \E rankingId \in 0..MaxCreatedF : F_ManualRescore(rankingId)
    \/ F_RunRescoreOnce
    \/ \E c \in calls, ok \in BOOLEAN : F_CallReturn(c, ok)
    \/ \E rankingId \in 0..MaxCreatedF, articlePosition \in PositionsSent, vote \in VotesSent :
          F_SubmitFeedback(rankingId, articlePosition, vote)

SpecF == InitF /\ [][NextF]_vars

\* the state after server.js has loaded: the store is empty, and
\* startReScoringScheduler() has armed the timer and run a first cycle, which
\* found no rankings
Init ==
    /\ InitCommon
    /\ openaiConfigured \in BOOLEAN
    /\ isRunning = TRUE
    /\ intervalId = 1
    /\ timers = {1}
    /\ timerMs = DefaultIntervalMs
    /\ schedLog = "no-rankings"

\* the class-based scheduler over the class-based store
Next ==
    \/ Tick
    \/ \E articles \in ArticleLists : CreateRanking(articles)
    \/ TimerTick
    \/ forceCycle
    \/ \E c \in calls, ok \in BOOLEAN : JobReturn(c, ok)
    \/ \E cy \in cycles : CycleCompleted(cy)

Spec == Init /\ [][Next]_vars

\* the class-based store with its clients: the server's routes and cleanup
InitStore == InitCommon /\ openaiConfigured = TRUE /\ isRunning = FALSE /\ intervalId = NoId
             /\ timers = {} /\ timerMs = 0 /\ schedLog = "none"

NextStore ==
    \/ Tick
    \/ \E articles \in ArticleLists : CreateRanking(articles)
    \/ \E articles \in ArticleLists : Scrape(articles)
    \/ \E rankingId \in 0..MaxCreated : ManualRescore(rankingId)
    \/ \E c \in calls, ok \in BOOLEAN : CallReturn(c, ok)
    \/ \E maxAge \in MaxAges : Cleanup(maxAge)

SpecStore == InitStore /\ [][NextStore]_vars

\* the class-based scheduler through its life: stopped, started again
NextLife ==
    \/ \E ms \in IntervalsSent : start(ms)
    \/ stop
    \/ CreateRanking(<<"a1">>)
    \/ TimerTick
    \/ \E c \in calls, ok \in BOOLEAN : JobReturn(c, ok)
    \/ \E cy \in cycles : CycleCompleted(cy)

SpecLife == Init /\ [][NextLife]_vars

\* the job ids a behaviour can hold: <<cycle id, ranking id>>
JobIds == (1..MaxCycles) \X (1..MaxCreated)

\* the provider call of the job with this id returns
ReturnOfJob(job) ==
    \E c \in calls, ok \in BOOLEAN :
        c.cycle = job[1] /\ c.rankingId = job[2] /\ JobReturn(c, ok)

\* SpecLife where every provider call returns (callOpenAI makes at most
\* maxRetries attempts), so that no requestAIScoring promise stays pending
FairLife == SpecLife /\ \A job \in JobIds : WF_vars(ReturnOfJob(job))

\* the functional scheduler through its life, over the functional store
NextFLife ==
    \/ startReScoringScheduler
    \/ F_stop
    \/ F_TimerTick
    \/ \E articles \in ArticleLists : F_Scrape(articles)
    \/ \E c \in calls, ok \in BOOLEAN : F_CallReturn(c, ok)

SpecFLife == InitF /\ [][NextFLife]_vars

\* the class-based scheduler, started before OPENAI_API_KEY is put into the
\* environment
NextEnv ==
    \/ SetKey
    \/ CreateRanking(<<"a1">>)
    \/ TimerTick
    \/ \E c \in calls, ok \in BOOLEAN : JobReturn(c, ok)
    \/ \E cy \in cycles : CycleCompleted(cy)

SpecEnv == Init /\ [][NextEnv]_vars

\* the class-based store filled beyond the capacity of the functional one
NextCap ==
    \/ Tick
    \/ \E articles \in ArticleLists : CreateRankingBeyond(articles)
    \/ \E maxAge \in MaxAges : Cleanup(maxAge)

SpecCap == InitStore /\ [][NextCap]_vars

\* the class-based store with the scrape and feedback routes and cleanup
NextFeedback ==
    \/ Tick
    \/ Scrape(<<"a1">>)
    \/ \E data \in DataSent : CreateRankingOf(data)
    \/ \E rankingId \in 0..MaxCreated, articlePosition \in PositionsSent, vote \in VotesSent :
          SubmitFeedback(rankingId, articlePosition, vote)
    \/ \E c \in calls, ok \in BOOLEAN : CallReturn(c, ok)
    \/ \E maxAge \in MaxAges : Cleanup(maxAge)

SpecFeedback == InitStore /\ [][NextFeedback]_vars

\* POST /api/articles/score behind its middleware
NextApi ==
    \/ Tick
    \/ \E values \in EnvsSent : SetApiEnv(values)
    \/ \E req \in RequestsSent, ok \in BOOLEAN : PostArticlesScore(req, ok)

SpecApi == InitStore /\ [][NextApi]_vars

\* the cache-backed scoring service with concurrent callers
NextScoring ==
    \/ Tick
    \/ \E rawArticles \in RawArticlesSent, criteria \in CriteriaSent :
          scoreArticles(rawArticles, criteria)
    \/ \E call \in svcPending, outcome \in ClientOutcomes : ClientReturns(call, outcome)
    \/ clearCache

SpecScoring == InitStore /\ [][NextScoring]_vars

\* the heuristic scoring service with concurrent callers
NextRanking ==
    \/ Advance(MaxTimeRanking)
    \/ \E articles \in ArticlesRanked, requestId \in RequestIdsSent :
          rankArticles(articles, requestId)
    \/ \E job \in rankJobs, ok \in BOOLEAN : RankReturns(job, ok)

SpecRanking == InitStore /\ [][NextRanking]_vars

\* callOpenAI called concurrently, with or without an API key in the
\* configuration
NextOpenAI ==
    \/ callOpenAI
    \/ \E i \in 1..MaxOpenAICalls, outcome \in AttemptOutcomes : AttemptSettles(i, outcome)
    \/ \E i \in 1..MaxOpenAICalls : DelayElapses(i)

SpecOpenAI == Init /\ [][NextOpenAI]_vars

\* SpecOpenAI where every fetch settles (the runtime's fetch times out) and
\* every timer of delay() fires
FairOpenAI ==
    /\ SpecOpenAI
    /\ \A i \in 1..MaxOpenAICalls :
          /\ WF_vars(\E outcome \in AttemptOutcomes : AttemptSettles(i, outcome))
          /\ WF_vars(DelayElapses(i))

\* the article store with a caller that keeps what it passes and gets
NextArticles ==
    \/ CallerBuilds
    \/ \E articles \in 1..MaxHeap, metadata \in 0..MaxHeap : CallerSaves(articles, metadata)
    \/ getAllArticles
    \/ clearArticles
    \/ \E a \in 1..MaxHeap : CallerMutates(a)

SpecArticles == InitStore /\ [][NextArticles]_vars

\* a run of the scraper script
NextScraper ==
    \E allCollectedArticles \in CollectedLists, currentTimestamp \in ScrapeTimes :
        validateHackerNewsArticleSorting(allCollectedArticles, currentTimestamp)

SpecScraper == InitStore /\ [][NextScraper]_vars

\* the class-based scheduler, its job budget reconfigured while it runs
InitConfig == Init /\ openaiConfigured = TRUE

NextConfig ==
    \/ \E config \in ConfigsSent : updateConfig(config)
    \/ Advance(MaxTimeConfig)
    \/ CreateRanking(<<"a1">>)
    \/ TimerTick
    \/ \E c \in calls, ok \in BOOLEAN : JobReturn(c, ok)
    \/ \E cy \in cycles : CycleCompleted(cy)

SpecConfig == InitConfig /\ [][NextConfig]_vars

\* the class-based scheduler with every operation of its interface
NextRun ==
    \/ \E ms \in IntervalsSent : start(ms)
    \/ stop
    \/ \E config \in ConfigsSent : updateConfig(config)
    \/ CreateRanking(<<"a1">>)
    \/ TimerTick
    \/ forceCycle
    \/ \E c \in calls, ok \in BOOLEAN : JobReturn(c, ok)
    \/ \E cy \in cycles : CycleCompleted(cy)

SpecRun == InitConfig /\ [][NextRun]_vars

\* the class-based scheduler with its timer armed and an available provider
\* whose calls succeed, over snapshots created once it is configured for one
\* job at a time and before the first unit of time has passed, and time
\* passing without end
NextStarve ==
    \/ Elapse
    \/ created = 0 /\ updateConfig([intervalMs |-> 0, maxConcurrentJobs |-> 1])
    \/ now = 0 /\ maxConcurrentJobs = 1 /\ CreateRanking(<<"a1">>)
    \/ TimerTick
    \/ \E c \in calls : JobReturn(c, TRUE)
    \/ \E cy \in cycles : CycleCompleted(cy)

SpecStarve == InitConfig /\ [][NextStarve]_vars

\* the provider call for this ranking that a job of cycle k awaits returns
ReturnOfCall(k, rankingId) ==
    \E c \in calls :
        c.cycle = k /\ c.rankingId = rankingId /\ JobReturn(c, TRUE)

\* SpecStarve where time keeps passing, the timer keeps firing, every
\* provider call returns and every cycle whose jobs have settled resumes
FairStarve ==
    /\ SpecStarve
    /\ WF_vars(Elapse)
    /\ WF_vars(TimerTick)
    /\ \A k \in 1..MaxCycles, rankingId \in 1..MaxCreated :
          WF_vars(ReturnOfCall(k, rankingId))
    /\ WF_vars(\E cy \in cycles : CycleCompleted(cy))

----------------------------------------------------------------------------
(* Properties of the functional store, under SpecF *)

Min(a, b) == IF a < b THEN a ELSE b

\* the snapshots created so far that are no longer in history
Evicted == (1..created) \ DOMAIN rankingHistory

\* call c returns in this step
Returns(c) == c \in calls /\ c \notin calls'

\* C2: listRankings() never has more than MAX_RANKINGS_STORED entries and
\* holds exactly the min(k, MAX_RANKINGS_STORED) most recently created of the
\* k snapshots created so far.
C2_HistoryBound ==
    LET n == Min(created, MAX_RANKINGS_STORED)
    IN /\ Len(listRankings) <= MAX_RANKINGS_STORED
       /\ Len(listRankings) = n
       /\ {listRankings[i].id : i \in 1..Len(listRankings)} = (created - n + 1)..created

\* more snapshots were created than the store holds, and insights and
\* feedback were stored along the way
C2_Witness ==
    /\ created > MAX_RANKINGS_STORED
    /\ DOMAIN aiInsights # {}
    /\ feedbackEntries # <<>>

\* C4: getAIInsight of an evicted snapshot returns none; saveAIInsight for an
\* evicted snapshot returns none and stores nothing.
C4_EvictionCascades ==
    /\ [](\A id \in Evicted : getAIInsight(id) = NoInsight)
    /\ [][\A c \in calls :
            (Returns(c) /\ c.rankingId \in Evicted) =>
                /\ lastSave'.rankingId = c.rankingId
                /\ lastSave'.returned = NoInsight
                /\ aiInsights' = aiInsights]_vars

\* a saveAIInsight offering a successful insight for an evicted snapshot has
\* returned none, and the snapshot has no insight
C4_Witness ==
    /\ lastSave.rankingId \in Evicted
    /\ lastSave.insight.success
    /\ lastSave.returned = NoInsight
    /\ getAIInsight(lastSave.rankingId) = NoInsight

\* C5: every ranking id with a stored insight is the id of a snapshot in
\* history; a scoring call that returns after its snapshot was evicted
\* leaves history, the current pointer and all insights unchanged.
C5_InsightNeverOutlivesSnapshot ==
    /\ [](DOMAIN aiInsights \subseteq DOMAIN rankingHistory)
    /\ [][\A c \in calls :
            (Returns(c) /\ c.rankingId \notin DOMAIN rankingHistory) =>
                UNCHANGED <<rankingHistory, rankingOrder, currentRankingId, aiInsights>>]_vars

\* the detached initial scoring of a scrape has returned after its snapshot
\* was evicted, while another snapshot has an insight
C5_Witness ==
    /\ lastSave.rankingId # NoId
    /\ lastSave.rankingId \notin DOMAIN rankingHistory
    /\ lastSave.insight.requestId = lastSave.rankingId
    /\ DOMAIN aiInsights # {}

----------------------------------------------------------------------------
(* Properties of the class-based store, under SpecStore *)

\* C3: getCurrentRanking() returns the most recently created snapshot, which
\* is in history; it returns none only when history is empty; the current
\* pointer never refers to a removed snapshot.
C3_CurrentPointer ==
    /\ (rs_getCurrentRanking = NoRanking) => (RsIds = {})
    /\ (RsIds # {}) => /\ rs_getCurrentRanking.id = created
                       /\ rs_getCurrentRanking.id \in RsIds
    /\ (rs_currentRankingId # NoId) => (rs_currentRankingId \in RsIds)

\* cleanupOldRankings has removed the older of two snapshots and the newer
\* one is current
C3_Witness ==
    /\ created = 2
    /\ Len(rs_rankings) = 1
    /\ rs_getCurrentRanking.id = 2

----------------------------------------------------------------------------
(* Properties of the class-based scheduler, under Spec *)

\* a step in which runReScoringCycle is entered
CycleStep ==
    /\ UNCHANGED <<now, created, rs_rankings>>
    /\ cycles \subseteq cycles'
    /\ (TimerTick \/ forceCycle)

\* the requestAIScoring calls started in this step
NewCalls == calls' \ calls

\* the cycles that suspend on their jobs in this step
NewCycles == cycles' \ cycles

Range(s) == {s[i] : i \in 1..Len(s)}

\* the insight is younger than the freshness threshold
Fresh(insight) == insight # NoInsight /\ now - insight.generatedAt < rescoreThreshold

\* no insight, or one older than the freshness threshold
Due(ranking) ==
    \/ ranking.aiInsight = NoInsight
    \/ now - ranking.aiInsight.generatedAt > rescoreThreshold

\* C1: the number of active jobs never exceeds maxConcurrentJobs.
C1_ConcurrencyBound == Cardinality(activeJobs) <= maxConcurrentJobs

\* C6: a cycle that starts with no active jobs and an available provider
\* calls the provider exactly once for a snapshot with articles and no
\* insight that is among the first maxConcurrentJobs due ones in listing
\* order; when the cycle completes, each snapshot it called the provider for
\* has an insight, returned by getAIInsight.
C6_CycleScoresOnce ==
    /\ [][(activeJobs = {} /\ openaiConfigured /\ CycleStep) =>
            \A i \in 1..Len(getAllRankings) :
                LET r == getAllRankings[i]
                    before == {j \in 1..(i - 1) :
                                  /\ Len(getAllRankings[j].articles) > 0
                                  /\ Due(getAllRankings[j])}
                IN (/\ Len(r.articles) > 0
                    /\ r.aiInsight = NoInsight
                    /\ Cardinality(before) < maxConcurrentJobs)
                   => /\ Cardinality({c \in NewCalls : c.rankingId = r.id}) = 1
                      /\ \E cy \in NewCycles : r.id \in Range(cy.called)]_vars
    /\ [][\A cy \in cycles :
            (cy \notin cycles') =>
                \A id \in Range(cy.called) :
                    /\ rs_getAIInsight(id) # NoInsight
                    /\ rs_getAIInsight(id).rankingId = id]_vars

\* a cycle has called the provider once for a snapshot, its job has returned,
\* and the insight of that very call is stored
C6_Witness ==
    \E cy \in cycles :
        /\ AllSettled(cy.id)
        /\ \E i \in 1..Len(cy.called) :
              rs_getAIInsight(cy.called[i]).requestId = cy.requestIds[i]

C8_FailedCallLeavesInsightStale ==
    [][\A c \in calls :
         JobReturn(c, FALSE) =>
            /\ rs_getAIInsight(c.rankingId)' = rs_getAIInsight(c.rankingId)
            /\ \E i \in 1..Len(getRankingsForReScoring') :
                  getRankingsForReScoring'[i].id = c.rankingId]_vars

\* C9: a job whose provider call returns saves the insight of that call,
\* whatever became of the other jobs of its cycle, and leaves those pending;
\* a cycle completes only when none of its jobs is pending or active, and
\* then every snapshot it called the provider for has an insight.
C9_PartialFailureIsolation ==
    /\ [][\A c \in calls :
            Returns(c) =>
                /\ rs_getAIInsight(c.rankingId)'.requestId = c.id
                /\ calls' = calls \ {c}
                /\ activeJobs' = activeJobs \ {<<c.cycle, c.rankingId>>}]_vars
    /\ [][\A cy \in cycles :
            (cy \notin cycles') =>
                /\ \A c \in calls : ~(c.path = "job" /\ c.cycle = cy.id)
                /\ \A job \in activeJobs : job[1] # cy.id
                /\ \A id \in Range(cy.called) : rs_getAIInsight(id) # NoInsight]_vars

\* both jobs of a cycle have settled: the provider call of the first failed,
\* the second one's succeeded and its insight is stored
C9_Witness ==
    \E cy \in cycles :
        /\ Len(cy.called) = 2
        /\ AllSettled(cy.id)
        /\ rs_getAIInsight(cy.called[1]).requestId = cy.requestIds[1]
        /\ ~rs_getAIInsight(cy.called[1]).success
        /\ rs_getAIInsight(cy.called[2]).requestId = cy.requestIds[2]
        /\ rs_getAIInsight(cy.called[2]).success

\* C10: a cycle entered while activeJobs.size >= maxConcurrentJobs starts no
\* provider call, registers no job id, leaves the store and activeJobs
\* unchanged and leaves nothing behind to run later.
C10_SaturatedCycleIsNoOp ==
    [][(Cardinality(activeJobs) >= maxConcurrentJobs /\ CycleStep) =>
          /\ NewCalls = {}
          /\ UNCHANGED <<rs_rankings, rs_currentRankingId, activeJobs, calls,
                         nextCall, cycles, timers>>]_vars

\* a cycle was skipped at the gate with maxConcurrentJobs jobs active
C10_Witness ==
    /\ schedLog = "max-concurrent-jobs-reached"
    /\ Cardinality(activeJobs) >= maxConcurrentJobs
    /\ Cardinality(calls) >= maxConcurrentJobs

----------------------------------------------------------------------------
(* Properties of the class-based scheduler through its life, under SpecLife *)

\* a stored snapshot with articles is due and a job slot is free
WorkWaiting ==
    /\ Cardinality(activeJobs) < maxConcurrentJobs
    /\ \E i \in 1..Len(rs_rankings) :
          Len(rs_rankings[i].articles) > 0 /\ Due(rs_rankings[i])

\* C11: whatever a provider call returns, the scheduler stays running with
\* exactly its own timer armed: only stop() ends that; and a timer tick that
\* finds a free slot and a due snapshot starts a cycle, also after failures.
C11_NoFatalState ==
    /\ [](isRunning => timers = {intervalId})
    /\ [](~isRunning => timers = {})
    /\ [][(isRunning /\ ~stop) =>
            (isRunning' /\ timers' = timers /\ intervalId' = intervalId)]_vars
    /\ [][(WorkWaiting /\ TimerTick) => NewCycles # {}]_vars

\* a provider call has failed and its failure is stored, while the scheduler
\* is running with its timer armed and a later job call is in flight
C11_Witness ==
    /\ isRunning
    /\ timers = {intervalId}
    /\ \E i \in 1..Len(rs_rankings), c \in calls :
          /\ rs_rankings[i].aiInsight # NoInsight
          /\ ~rs_rankings[i].aiInsight.success
          /\ c.path = "job"
          /\ c.id > rs_rankings[i].aiInsight.requestId

C14_StopKeepsJobs ==
    /\ [][(isRunning /\ stop) =>
            /\ ~isRunning'
            /\ timers' = {}
            /\ intervalId' = NoId
            /\ UNCHANGED <<calls, nextCall, activeJobs, cycles, storeK>>]_vars
    /\ [][(~isRunning /\ stop) => UNCHANGED vars]_vars
    /\ [][(~isRunning /\ ~isRunning') =>
            /\ \A c \in NewCalls : c.path # "job"
            /\ NewCycles = {}
            /\ activeJobs' \subseteq activeJobs]_vars
    /\ [][\A c \in calls :
            (~isRunning /\ c.path = "job" /\ Returns(c)) =>
                /\ rs_getAIInsight(c.rankingId)'.requestId = c.id
                /\ <<c.cycle, c.rankingId>> \notin activeJobs']_vars
    /\ [](intervalHandle = NoId => f_timers = {})
    /\ [][(f_timers = {}) => \A c \in NewCalls : c.path # "timer"]_vars

\* the scheduler is stopped, no timer is armed, one job of a cycle has saved
\* its insight and another is still in flight
C14_Witness ==
    /\ ~isRunning
    /\ timers = {}
    /\ \E cy \in cycles :
          \E i, j \in 1..Len(cy.called) :
              /\ rs_getAIInsight(cy.called[i]).requestId = cy.requestIds[i]
              /\ \E c \in calls : c.id = cy.requestIds[j]

----------------------------------------------------------------------------
(* Properties of the scoring paths over the functional store, under SpecF *)

\* the paths of a call that a scheduler starts: a job of the class-based
\* scheduler, runRescoreOnce from its timer or as runNow
SchedulerPaths == {"job", "timer", "runNow"}

\* C15: no scheduler path starts a scoring call for a snapshot without
\* articles, nor saves an insight to one.
C15_EmptySnapshotNeverScored ==
    [][/\ \A c \in NewCalls : (c.path \in SchedulerPaths) => Len(c.articles) > 0
       /\ \A c \in calls :
             (Returns(c) /\ c.path \in SchedulerPaths /\ Len(c.articles) = 0) =>
                 UNCHANGED <<aiInsights, rs_rankings>>]_vars

----------------------------------------------------------------------------
(* Properties of the class-based scheduler and the provider's availability,
   under SpecEnv *)

----------------------------------------------------------------------------
(* Properties of the class-based scheduler's job budget, under SpecConfig *)

\* the snapshots a cycle selected and started no job for
Leftover(cy) == Range(cy.selected) \ Range(cy.jobs)

\* C17: a cycle starts jobs for the first min(n, maxConcurrentJobs) of the n
\* snapshots it selected, none of them created before a selected snapshot it
\* starts no job for; it calls the provider for no other snapshot; the
\* selected snapshots beyond the budget are unchanged and are still selected
\* after the step.
C17_CycleBudget ==
    [][(Cardinality(activeJobs) < maxConcurrentJobs /\ CycleStep) =>
        /\ Cardinality(NewCalls) <= maxConcurrentJobs
        /\ \A cy \in NewCycles :
              /\ Len(cy.jobs) = Min(Len(cy.selected), maxConcurrentJobs)
              /\ cy.jobs = SubSeq(cy.selected, 1, Len(cy.jobs))
              /\ {c.rankingId : c \in NewCalls} \subseteq Range(cy.jobs)
              /\ \A id \in Range(cy.jobs), left \in Leftover(cy) :
                    rs_getRankingById(id).createdAt >= rs_getRankingById(left).createdAt
              /\ \A left \in Leftover(cy) :
                    /\ rs_getRankingById(left)' = rs_getRankingById(left)
                    /\ \E i \in 1..Len(getRankingsForReScoring') :
                          getRankingsForReScoring'[i].id = left]_vars

\* a cycle selected a snapshot beyond its budget, and a later cycle has
\* called the provider for it
C17_Witness ==
    \E first, later \in cycles :
        \E left \in Leftover(first) : left \in Range(later.called)

----------------------------------------------------------------------------
(* Properties of concurrent insight writes, under SpecF *)

\* C18: aiInsights holds at most one insight per snapshot, filed under the
\* snapshot's id; when a scoring call returns for a snapshot in history, the
\* insight stored for that snapshot afterwards is this call's result,
\* whatever was stored before and whichever call started first, and the
\* insights of all other snapshots are unchanged.
C18_LastWriteWins ==
    /\ [](\A id \in DOMAIN aiInsights : aiInsights[id].rankingId = id)
    /\ [][\A c \in calls :
            (Returns(c) /\ c.rankingId \in DOMAIN rankingHistory) =>
                /\ DOMAIN aiInsights' = DOMAIN aiInsights \cup {c.rankingId}
                /\ aiInsights'[c.rankingId].requestId = c.id
                /\ aiInsights'[c.rankingId].recordedAt = now
                /\ \A id \in DOMAIN aiInsights \ {c.rankingId} :
                      aiInsights'[id] = aiInsights[id]]_vars

\* every call was for the one snapshot created, all have returned, and the
\* stored insight is the result of a call started before the last one: the
\* two overlapped and the one started first was saved last
C18_Witness ==
    /\ created = 1
    /\ calls = {}
    /\ 1 \in DOMAIN aiInsights
    /\ aiInsights[1].requestId < nextCall
    /\ lastSave.insight.requestId = aiInsights[1].requestId

----------------------------------------------------------------------------
(* Properties of the class-based store's records, under SpecStore *)

\* C19: no step changes any field of a snapshot that stays in the store:
\* getRankingById(id) returns the same record before and after.
C19_SnapshotNeverMutated ==
    [][\A id \in RsIds \cap RsIds' : rs_getRankingById(id)' = rs_getRankingById(id)]_vars

----------------------------------------------------------------------------
(* Properties of the class-based store's size, under SpecCap *)

\* C20: the class-based RankingStore never holds more than
\* MAX_RANKINGS_STORED snapshots.
C20_ClassStoreBounded == Len(rs_rankings) <= MAX_RANKINGS_STORED

----------------------------------------------------------------------------
(* Properties of the class-based store's listing, under SpecStore *)

\* C21: getAllRankings() lists every stored snapshot exactly once, the most
\* recently created first, also when snapshots share a creation time.
C21_ListingNewestFirst ==
    /\ Len(getAllRankings) = Len(rs_rankings)
    /\ \A i \in 1..Len(getAllRankings) :
          getAllRankings[i] = rs_rankings[Len(rs_rankings) + 1 - i]

----------------------------------------------------------------------------
(* Properties of the feedback log, under SpecF *)

----------------------------------------------------------------------------
(* Properties of the class-based store's feedback, under SpecFeedback *)

\* all feedback entries the class-based store holds
RsFeedbackEntries == Range(RsAllFeedback(Len(rs_feedback)))

\* C23: a step adds at most one feedback entry; the entries of a ranking
\* that stays in the store stay, unchanged and in their order, and are in
\* listFeedback(); an entry is removed only in a step that removes the
\* ranking it refers to. The functional store never removes or changes an
\* entry.
C23_FeedbackAppendOnly ==
    /\ [][(rs_feedback' # rs_feedback) =>
            /\ Cardinality(RsFeedbackEntries' \ RsFeedbackEntries) <= 1
            /\ \A id \in RsIds \cap RsIds' :
                  /\ Len(rs_feedbackOf(id)') >= Len(rs_feedbackOf(id))
                  /\ SubSeq(rs_feedbackOf(id)', 1, Len(rs_feedbackOf(id))) = rs_feedbackOf(id)
                  /\ Range(rs_feedbackOf(id)) \subseteq Range(rs_listFeedback(NoId)')
            /\ \A entry \in RsFeedbackEntries \ RsFeedbackEntries' :
                  entry.rankingId \in RsIds \ RsIds']_vars
    /\ [][/\ Len(feedbackEntries') >= Len(feedbackEntries)
          /\ SubSeq(feedbackEntries', 1, Len(feedbackEntries)) = feedbackEntries]_vars

\* ranking 1 was removed by cleanup, and an entry for ranking 2 is still
\* listed after that and after an insight was saved for ranking 2
C23_Witness ==
    /\ created = 2
    /\ RsIds = {2}
    /\ \E entry \in Range(rs_listFeedback(NoId)) :
          /\ entry.rankingId = 2
          /\ rs_getAIInsight(2) # NoInsight
          /\ rs_getAIInsight(2).generatedAt > entry.submittedAt

\* the entries of list l are in non-increasing order of submittedAt
NewestFirst(l) ==
    \A i, j \in 1..Len(l) : (i < j) => l[i].submittedAt >= l[j].submittedAt

\* C24: listFeedback() holds all entries and listFeedback({rankingId})
\* exactly those of the ranking, both newest first.
C24_ListFeedbackNewestFirst ==
    /\ Range(rs_listFeedback(NoId)) = RsFeedbackEntries
    /\ Len(rs_listFeedback(NoId)) = Cardinality(RsFeedbackEntries)
    /\ NewestFirst(rs_listFeedback(NoId))
    /\ \A rankingId \in 1..created :
          /\ Range(rs_listFeedback(rankingId)) =
                {entry \in RsFeedbackEntries : entry.rankingId = rankingId}
          /\ NewestFirst(rs_listFeedback(rankingId))

----------------------------------------------------------------------------
(* Properties of the scheduler's configuration, under SpecConfig *)

\* C25: intervalMs and maxConcurrentJobs are always positive; a step that
\* changes one of them sets it to a positive value a client sent, and
\* changes neither the running flag, the timer, the active jobs, the calls
\* in flight, the suspended cycles nor the store.
C25_UpdateConfigPositiveOnly ==
    /\ [](intervalMs > 0 /\ maxConcurrentJobs > 0)
    /\ [][(<<intervalMs, maxConcurrentJobs>>' # <<intervalMs, maxConcurrentJobs>>) =>
            /\ \E config \in ConfigsSent :
                  /\ intervalMs' \in {intervalMs, config.intervalMs}
                  /\ maxConcurrentJobs' \in {maxConcurrentJobs, config.maxConcurrentJobs}
            /\ UNCHANGED <<isRunning, intervalId, timers, activeJobs, calls, nextCall,
                           cycles, storeK>>]_vars

\* both settings were changed, each by a call that left the other one as it
\* was, while two jobs were in flight: more than the new budget of one
C25_Witness ==
    /\ intervalMs # DefaultIntervalMs
    /\ maxConcurrentJobs # DefaultMaxConcurrentJobs
    /\ Cardinality(activeJobs) > maxConcurrentJobs

\* C26: createRankingRecord given data without an article list stores a
\* snapshot with articles = <<>>, and given a list stores that list; a stored
\* snapshot without articles is not selected for re-scoring and has no
\* feedback entry.
C26_MissingArticlesDefaultEmpty ==
    /\ [][\A data \in DataSent :
            CreateRankingOf(data) =>
                LET ranking == rs_rankings'[Len(rs_rankings')]
                IN /\ Len(rs_rankings') = Len(rs_rankings) + 1
                   /\ ranking.id = created + 1
                   /\ rs_currentRankingId' = ranking.id
                   /\ ranking.articles =
                         IF "articles" \in DOMAIN data THEN data.articles ELSE <<>>]_vars
    /\ [](\A i \in 1..Len(rs_rankings) :
            (Len(rs_rankings[i].articles) = 0) =>
                /\ ~NeedsReScoring(rs_rankings[i])
                /\ rs_feedbackOf(rs_rankings[i].id) = <<>>)

\* a snapshot created without an article list is stored next to one that
\* has articles and a feedback entry
C26_Witness ==
    \E i, j \in 1..Len(rs_rankings) :
        /\ rs_rankings[i].articles = <<>>
        /\ rs_rankings[j].articles # <<>>
        /\ rs_feedbackOf(rs_rankings[j].id) # <<>>

----------------------------------------------------------------------------
(* Properties of the scraper script, under SpecScraper *)

\* C27: a run reports isCorrectlySorted only when it validated exactly
\* REQUIRED_ARTICLE_COUNT articles and no article is older than its
\* successor; the sorting errors are the positions of the articles that are
\* older than their successor.
C27_ExactlyRequiredSorted ==
    (scraperRun.outcome = "validated") =>
        LET timestamps == scraperRun.timestamps
            older == {i \in 1..(Len(timestamps) - 1) : timestamps[i] < timestamps[i + 1]}
        IN /\ scraperRun.isCorrectlySorted =>
                 (Len(timestamps) = REQUIRED_ARTICLE_COUNT /\ older = {})
           /\ Range(scraperRun.sortingErrors) = older
           /\ Len(scraperRun.sortingErrors) = Cardinality(older)

----------------------------------------------------------------------------
(* Properties of POST /api/articles/score and its middleware, under SpecApi *)

\* a request is answered in this step
Answered == served' = served + 1

Presented(req) ==
    IF req.xApiKey # "" THEN req.xApiKey
    ELSE IF req.authorization = "" THEN "" ELSE BearerToken[req.authorization]

\* the key configured in the environment, "" when there is none
Configured == EnvOr("API_KEY", EnvOr("ARTICLE_SCORING_API_KEY", ""))

----------------------------------------------------------------------------
(* Properties of the in-memory article store, under SpecArticles *)

\* what getAllArticles() returns, as a value: the fields of every stored
\* article and of the stored metadata, with the array sortingErrors refers to
StoredValue ==
    [articles |-> [i \in 1..Len(heap[storedArticles].items) |->
                      heap[heap[storedArticles].items[i]]],
     metadata |-> IF storedMetadata = NoId THEN <<>>
                  ELSE <<heap[storedMetadata].totalArticles,
                         heap[heap[storedMetadata].sortingErrors].items>>]

\* C30: a step in which the caller changes an object it holds or can reach
\* from one (an argument passed to saveArticles, a result of
\* getAllArticles(), at any depth) leaves what getAllArticles() returns
\* unchanged.
C30_ArticleStoreIsolated ==
    [][(\E a \in 1..Len(heap) : CallerMutates(a)) => StoredValue' = StoredValue]_vars

\* the value of an articles array and a metadata object (or null) of the
\* heap h, as deepEqual compares it
ValueOf(h, articles, metadata) ==
    [articles |-> [i \in 1..Len(h[articles].items) |-> h[h[articles].items[i]]],
     metadata |-> IF metadata = NoId THEN <<>>
                  ELSE <<h[metadata].totalArticles, h[h[metadata].sortingErrors].items>>]

\* what the getAllArticles() call of this step returned
Returned ==
    IF storedMetadata = NoId THEN ValueOf(heap', Len(heap'), NoId)
    ELSE ValueOf(heap', Len(heap') - 1, Len(heap'))

\* C31: a successful saveArticles makes the stored state equal to its
\* arguments (metadata null when omitted), clearArticles makes it empty
\* articles with null metadata, and getAllArticles() returns the stored state
\* and leaves it as it is.
C31_SaveReplacesAll ==
    [][/\ \A articles \in 1..Len(heap), metadata \in 0..Len(heap) :
            (CallerSaves(articles, metadata) /\ saveError' = "none")
                => StoredValue' = ValueOf(heap, articles, metadata)
       /\ clearArticles => StoredValue' = [articles |-> <<>>, metadata |-> <<>>]
       /\ getAllArticles => Returned = StoredValue /\ StoredValue' = StoredValue]_vars

\* a save without metadata has replaced a save with metadata
C31_Witness ==
    /\ Len(heap) = 10
    /\ storedMetadata = NoId
    /\ heap[storedArticles].items # <<>>
    /\ Cardinality({a \in 1..Len(heap) : heap[a].kind = "metadata"}) = 2

\* C32: a saveArticles call whose articles is not an array throws TypeError
\* and leaves the stored articles and metadata as they were; a call with an
\* array does not throw.
C32_NonArrayRejected ==
    [][\A articles \in 1..Len(heap), metadata \in 0..Len(heap) :
          CallerSaves(articles, metadata)
              => /\ saveError' = "TypeError" <=> heap[articles].kind # "array"
                 /\ saveError' = "TypeError"
                       => /\ StoredValue' = StoredValue
                          /\ UNCHANGED <<storedArticles, storedMetadata>>]_vars

\* a non-array save was rejected while the store held a save with metadata
C32_Witness ==
    /\ saveError = "TypeError"
    /\ storedMetadata # NoId
    /\ heap[storedArticles].items # <<>>

----------------------------------------------------------------------------
(* Properties of the cache-backed scoring service, under SpecScoring *)

\* C33: between two clearCache() calls the client is invoked at most once
\* for each payload, invocations that failed aside.
C33_OneInvocationPerPayload ==
    \A k \in DOMAIN svcInvocations : svcInvocations[k].started - svcInvocations[k].failed <= 1

----------------------------------------------------------------------------
(* Properties of the class-based scheduler's interface, under SpecRun *)

\* C34: a timer is armed exactly when isRunning is true, it is the one
\* intervalId refers to and there is no other; isRunning becomes true only
\* in start() and false only in stop().
C34_TimerIffRunning ==
    /\ [](/\ timers # {} <=> isRunning
          /\ Cardinality(timers) <= 1
          /\ isRunning => timers = {intervalId})
    /\ [][isRunning' # isRunning
             => \/ ~isRunning /\ \E ms \in IntervalsSent : start(ms)
                \/ isRunning /\ stop]_vars

\* stopped after a cycle started a job that is still in flight, with the
\* interval changed by updateConfig
C34_Witness ==
    /\ ~isRunning
    /\ timers = {}
    /\ activeJobs # {}
    /\ cycles # {}
    /\ intervalMs = 15

\* C38: while the scheduler is running, the period its timer was armed
\* with is the intervalMs getStatus() reports and computes nextRun from;
\* getStatus() reports as many activeJobs as activeJobIds, and a null nextRun
\* exactly when not running.
C38_StatusMatchesTimer ==
    /\ isRunning => timerMs = getStatus.intervalMs
    /\ isRunning => getStatus.nextRun = <<now, timerMs>>
    /\ getStatus.activeJobs = Cardinality(getStatus.activeJobIds)
    /\ getStatus.nextRun = <<>> <=> ~isRunning

----------------------------------------------------------------------------
(* Properties of overlapping cycles, under Spec *)

\* C35: no two active scheduler jobs are for the same ranking id.
C35_OneJobPerRanking ==
    \A j1, j2 \in activeJobs : j1[2] = j2[2] => j1 = j2

----------------------------------------------------------------------------
(* Properties of the provider calls of the server's routes, under SpecStore *)

\* C36: the provider calls in flight, whichever path started them, are
\* never more than maxConcurrentJobs.
C36_BudgetBoundsAllCalls ==
    Cardinality(calls) <= maxConcurrentJobs

----------------------------------------------------------------------------
(* Properties of the class-based scheduler over unbounded time, under FairStarve *)

\* the snapshot with this id is stored and has an article
Stored(id) ==
    \E i \in 1..Len(rs_rankings) :
        rs_rankings[i].id = id /\ Len(rs_rankings[i].articles) > 0

\* the snapshot with this id has an insight
Scored(id) ==
    \E i \in 1..Len(rs_rankings) :
        rs_rankings[i].id = id /\ rs_rankings[i].aiInsight # NoInsight

\* C37: when the timer keeps firing and every provider call returns, every
\* stored snapshot with an article eventually has an insight.
C37_NoSnapshotStarved ==
    \A id \in 1..MaxCreated : [](Stored(id) => <>Scored(id))

----------------------------------------------------------------------------
(* Properties of the heuristic scoring service, under SpecRanking *)

\* C39: activeScoringJobs never holds more than maxConcurrentScoring ids; a
\* rankArticles call that misses the cache while that many are held ends
\* with a 429 error and changes neither activeScoringJobs nor the cache; a
\* call that hits an unexpired entry returns it and registers no job; and
\* when a job ends, with a result or an error, its id is no longer held.
C39_ScoringJobsBounded ==
    /\ [](Cardinality(activeScoringJobs) <= maxConcurrentScoring)
    /\ [][\A articles \in ArticlesRanked, requestId \in RequestIdsSent :
            (articles # <<>> /\ rankArticles(articles, requestId))
               => /\ (~CacheHit(generateCacheKey(articles)) /\ ScoringLimitReached)
                       => /\ rankResult' = [outcome |-> "error", statusCode |-> 429]
                          /\ UNCHANGED <<activeScoringJobs, scoringCache, rankJobs>>
                  /\ CacheHit(generateCacheKey(articles))
                       => /\ rankResult'.outcome = "cached"
                          /\ UNCHANGED <<activeScoringJobs, scoringCache, rankJobs>>]_vars
    /\ [][\A job \in rankJobs, ok \in BOOLEAN :
            RankReturns(job, ok) => job.jobId \notin activeScoringJobs']_vars

\* a call was rejected with 429 while as many jobs as allowed were active,
\* after an earlier job had ended
C39_Witness ==
    /\ Cardinality(activeScoringJobs) = maxConcurrentScoring
    /\ rankResult = [outcome |-> "error", statusCode |-> 429]
    /\ ranked = MaxRanked

----------------------------------------------------------------------------
(* Properties of callOpenAI, under FairOpenAI *)

\* the delays callOpenAI waits after its first n failed attempts
DelaysAfter(n) == [k \in 1..n |-> retryDelay * k]

\* call i has returned or thrown
Ended(i) ==
    /\ i \in 1..Len(openaiCalls)
    /\ openaiCalls[i].phase \in {"returned", "thrown"}

\* C40: every callOpenAI call ends, after at most maxRetries request
\* attempts. It returns the content of the first attempt that succeeds and
\* makes no attempt after it; it has waited retryDelay * k after its k-th
\* failed attempt; after maxRetries failures it throws the error of the last
\* one; and without an API key it throws before any attempt.
C40_CallOpenAITerminates ==
    /\ \A i \in 1..MaxOpenAICalls :
          [](i \in 1..Len(openaiCalls) => <>Ended(i))
    /\ [](\A i \in 1..Len(openaiCalls) :
            LET call == openaiCalls[i]
            IN /\ call.fetches <= maxRetries
               /\ call.phase = "returned"
                    => /\ call.result = "content"
                       /\ call.fetches = Len(call.failures) + 1
                       /\ call.delays = DelaysAfter(Len(call.failures))
               /\ call.phase = "thrown"
                    => \/ ~openaiConfigured /\ call.fetches = 0
                       \/ /\ openaiConfigured
                          /\ call.fetches = maxRetries
                          /\ Len(call.failures) = maxRetries
                          /\ call.result = call.failures[maxRetries]
                          /\ call.delays = DelaysAfter(maxRetries - 1)
               /\ ~openaiConfigured => call.phase = "thrown")
    /\ [][\A i \in 1..Len(openaiCalls) :
            Ended(i) => openaiCalls'[i] = openaiCalls[i]]_vars

\* one call threw its third error, which differs from the first, and
\* another returned on its second attempt
C40_Witness ==
    \E i, j \in 1..Len(openaiCalls) :
        /\ openaiCalls[i].phase = "thrown"
        /\ Len(openaiCalls[i].failures) = maxRetries
        /\ openaiCalls[i].failures[1] # openaiCalls[i].result
        /\ openaiCalls[j].phase = "returned"
        /\ openaiCalls[j].fetches = 2

============================================================================
